---------------------------- MODULE Spec2Model ----------------------------
(***************************************************************************)
(* A model of the T_Lang front end (src/T_Lang/t/Parser.h, which holds the *)
(* parser followed by the lexer).                                          *)
(*                                                                         *)
(* A character is a one-character string, a text is a sequence of          *)
(* characters, a token is a record [value, type].  The lexer is modelled   *)
(* at the level of its member functions: each helper of class Lexer is an  *)
(* operator from a lexer record (the members srctext, tokens, i, LENGTH,   *)
(* lastType, with the global user_defined_classnames as field names) to    *)
(* the lexer record after the call.  The indices are the 0-based indices   *)
(* of the source.  The parser is modelled the same way: each member        *)
(* function of class Parser is an operator from a parser record to the     *)
(* parser record after the call, which carries the node the call returned. *)
(***************************************************************************)
EXTENDS Integers, Sequences, FiniteSets, TLC

VARIABLES
    srctext,                  \* Lexer::srctext
    tokens,                   \* Lexer::tokens
    i,                        \* Lexer::i
    LENGTH,                   \* Lexer::LENGTH
    lastType,                 \* Lexer::lastType
    user_defined_classnames,  \* t::user_defined_classnames (process-wide)
    pc,                       \* where the current Lexer is: "constructed", or how tokenize() ended
    result,                   \* the TokenList tokenize() returned (meaningful when pc = "returned")
    names0,                   \* history: user_defined_classnames when the current Lexer was constructed
    parser_tokens,            \* Parser::tokens
    parser_i,                 \* Parser::i
    parser_pc,                \* where the Parser is: "none", "constructed", or how produceAST() ended
    program,                  \* the ast::Program produceAST() returned (meaningful when parser_pc = "returned")
    oob,                      \* history: produceAST() read tokens[k] for some k >= tokens.size()
    stalled                   \* history: an iteration of a loop of the parser consumed no token

lvars == << srctext, tokens, i, LENGTH, lastType, user_defined_classnames,
            pc, result, names0 >>

pvars == << parser_tokens, parser_i, parser_pc, program, oob, stalled >>

vars == << lvars, pvars >>

---------------------------------------------------------------------------
(* Characters *)

NUL == "NUL"   \* the '\0' that std::string::operator[] yields at index size()
LF  == "\n"
CR  == "\r"
TAB == "\t"
DQ  == "\""
SQ  == "'"
BSL == "\\"

Digits == {"0", "1", "2", "3", "4", "5", "6", "7", "8", "9"}

Letters ==
    {"a", "b", "c", "d", "e", "f", "g", "h", "i", "j", "k", "l", "m",
     "n", "o", "p", "q", "r", "s", "t", "u", "v", "w", "x", "y", "z",
     "A", "B", "C", "D", "E", "F", "G", "H", "I", "J", "K", "L", "M",
     "N", "O", "P", "Q", "R", "S", "T", "U", "V", "W", "X", "Y", "Z"}

---------------------------------------------------------------------------
(* Token kinds, in the order of the enum *)

TokenTypes ==
    << "Equals", "EqualsEquals", "NotEquals", "GreaterThan", "LessThan",
       "ShiftLeft", "ShiftRight", "Plus", "Minus", "Divide", "Multiply",
       "Exponent", "Modulus", "AND", "ANDAND", "OR", "OROR", "Dot",
       "ColonColon",
       "MinusMinus", "Not", "PlusPlus",
       "Pointer", "Reference", "string_literal", "char_literal",
       "bool_literal", "Semicolon", "Colon", "Comma", "integer_literal",
       "negative_integer_literal", "float_literal", "Identifier", "KeyWord",
       "for_", "while_", "public_", "private_", "protected_", "cast_",
       "return_", "null_", "in_", "if_", "constexpr_", "namespace_",
       "OParen", "CParen", "OCurlyBrace", "CCurlyBrace", "mutable_",
       "class_", "ClassType", "PrimitiveType", "EOF_" >>

\* the numeric value of an enumerator
m_type(type) == CHOOSE k \in 1..Len(TokenTypes) : TokenTypes[k] = type

isBinaryOperator(type) == m_type(type) < m_type("MinusMinus")

Token(value, type) == [value |-> value, type |-> type]

---------------------------------------------------------------------------
(* Words *)

W_class     == << "c", "l", "a", "s", "s" >>
W_private   == << "p", "r", "i", "v", "a", "t", "e" >>
W_public    == << "p", "u", "b", "l", "i", "c" >>
W_protected == << "p", "r", "o", "t", "e", "c", "t", "e", "d" >>
W_mutable   == << "m", "u", "t", "a", "b", "l", "e" >>
W_cast      == << "c", "a", "s", "t" >>
W_return    == << "r", "e", "t", "u", "r", "n" >>
W_for       == << "f", "o", "r" >>
W_while     == << "w", "h", "i", "l", "e" >>
W_in        == << "i", "n" >>
W_if        == << "i", "f" >>
W_null      == << "n", "u", "l", "l" >>
W_namespace == << "n", "a", "m", "e", "s", "p", "a", "c", "e" >>
W_constexpr == << "c", "o", "n", "s", "t", "e", "x", "p", "r" >>
W_true      == << "t", "r", "u", "e" >>
W_false     == << "f", "a", "l", "s", "e" >>
W_String    == << "S", "t", "r", "i", "n", "g" >>
W_int       == << "i", "n", "t" >>
W_uint      == << "u", "i", "n", "t" >>

KEYWORDS ==
    (W_class :> "class_") @@ (W_private :> "private_") @@
    (W_public :> "public_") @@ (W_protected :> "protected_") @@
    (W_mutable :> "mutable_") @@ (W_cast :> "cast_") @@
    (W_return :> "return_") @@ (W_for :> "for_") @@ (W_while :> "while_") @@
    (W_in :> "in_") @@ (W_if :> "if_") @@ (W_null :> "null_") @@
    (W_namespace :> "namespace_")

DEFAULT_TYPES ==
    { << "a", "u", "t", "o" >>, << "c", "h", "a", "r" >>,
      W_int \o << "8" >>, W_int \o << "1", "6" >>,
      W_int \o << "3", "2" >>, W_int \o << "6", "4" >>,
      W_uint \o << "8" >>, W_uint \o << "1", "6" >>,
      W_uint \o << "3", "2" >>, W_uint \o << "6", "4" >>,
      << "f", "l", "o", "a", "t" >>, << "d", "o", "u", "b", "l", "e" >>,
      << "b", "o", "o", "l" >>, W_String, << "v", "o", "i", "d" >> }

---------------------------------------------------------------------------
(* std::string accessors *)

\* srctext[ k ]: the character at 0-based index k; index size() reads '\0'.
\* No access of the lexer goes beyond size().
At(s, k) == IF k < Len(s) THEN s[k + 1] ELSE NUL

\* srctext.substr( pos, n ), for pos <= size()
substr(s, pos, n) ==
    SubSeq(s, pos + 1, IF pos + n < Len(s) THEN pos + n ELSE Len(s))

---------------------------------------------------------------------------
(* The one-line predicates of class Lexer; L is the lexer record *)

nextCharacterIsSame(L) ==
    Len(L.srctext) > L.i + 1 /\ At(L.srctext, L.i) = At(L.srctext, L.i + 1)

nextCharacterIs(L, c) ==
    Len(L.srctext) > L.i + 1 /\ At(L.srctext, L.i + 1) = c

isSkippable(L) == At(L.srctext, L.i) \in {" ", TAB, LF, CR}

isInt(L) == At(L.srctext, L.i) \in Digits

\* toupper( c ) != tolower( c ): exactly the ASCII letters
isAlpha(L) == At(L.srctext, L.i) \in Letters

isKeyWord(str) == str \in DOMAIN KEYWORDS

isDefaultType(str) == str \in DEFAULT_TYPES

isUserDefinedClassNonEmpty(L, str) == L.names # {}

isUserDefinedClass(L, str) == str \in L.names

---------------------------------------------------------------------------
(* Emission *)

\* tokens.push_back( lexer::Token( value, lastType = type ) )
push_back(L, value, type) ==
    [L EXCEPT !.tokens = Append(@, Token(value, type)), !.lastType = type]

handleDoubleCharacter(L, type) ==
    [push_back(L, substr(L.srctext, L.i, 2), type) EXCEPT !.i = @ + 1]

handleSingleCharacter(L, type) ==
    push_back(L, substr(L.srctext, L.i, 1), type)

---------------------------------------------------------------------------
(* buildString *)

\* the while loop of buildString and what follows it; str is the text so far
RECURSIVE buildStringLoop(_, _)
buildStringLoop(L, str) ==
    LET j == L.i + 1      \* ++i
        c == At(L.srctext, j)
    IN  IF j < L.LENGTH /\ c # DQ
        THEN IF c = LF \/ c = CR
             THEN [L EXCEPT !.i = j, !.st = "threw"]
             ELSE buildStringLoop([L EXCEPT !.i = j], Append(str, c))
        ELSE IF j < L.LENGTH /\ At(L.srctext, j) # DQ
             THEN [L EXCEPT !.i = j, !.st = "threw"]
             ELSE push_back([L EXCEPT !.i = j], str, "string_literal")

buildString(L) ==
    IF L.i < L.LENGTH /\ At(L.srctext, L.i + 1) = DQ
    THEN push_back(L, << >>, "string_literal")
    ELSE buildStringLoop(L, << >>)

---------------------------------------------------------------------------
(* buildChar *)

buildChar(L) ==
    LET j  == L.i + 1     \* ++i
        ch == substr(L.srctext, j, 1)
        c2 == IF At(L.srctext, j) = BSL
              THEN Append(ch, At(L.srctext, j))
              ELSE ch
    IN  push_back([L EXCEPT !.i = j + 1], c2, "char_literal")

---------------------------------------------------------------------------
(* buildNumber *)

\* while ( i < LENGTH && isInt() ) i++ : the index the loop stops at
RECURSIVE skipInts(_, _)
skipInts(L, k) ==
    IF k < L.LENGTH /\ At(L.srctext, k) \in Digits
    THEN skipInts(L, k + 1)
    ELSE k

buildNumber(L, isNegative) ==
    LET k   == skipInts(L, L.i)
        num == (IF isNegative THEN << "-" >> ELSE << >>)
                   \o SubSeq(L.srctext, L.i + 1, k)
    IN  IF k < L.LENGTH /\ At(L.srctext, k) # "."
        THEN push_back([L EXCEPT !.i = k - 1], num,
                       IF isNegative THEN "negative_integer_literal"
                                     ELSE "integer_literal")
        ELSE LET k2   == skipInts(L, k + 1)
                 num2 == Append(num, At(L.srctext, k))
                             \o SubSeq(L.srctext, k + 2, k2)
             IN  push_back([L EXCEPT !.i = k2 - 1], num2, "float_literal")

---------------------------------------------------------------------------
(* parseIdentifier, buildIdentifier *)

RECURSIVE skipIdentifier(_, _)
skipIdentifier(L, k) ==
    IF k < L.LENGTH /\ At(L.srctext, k) \in Digits \cup Letters \cup {"_"}
    THEN skipIdentifier(L, k + 1)
    ELSE k

\* the lexer after parseIdentifier(); the word read is parseIdentifier(L).id
parseIdentifier(L) ==
    LET k == skipIdentifier(L, L.i)
    IN  [L EXCEPT !.i = k - 1] @@ [id |-> SubSeq(L.srctext, L.i + 1, k)]

classifyNoInsert(L, id) ==
    IF id = W_false \/ id = W_true THEN push_back(L, id, "bool_literal")
    ELSE IF isKeyWord(id) THEN push_back(L, id, KEYWORDS[id])
    ELSE IF isDefaultType(id)
         THEN IF id = W_String THEN push_back(L, id, "ClassType")
                               ELSE push_back(L, id, "PrimitiveType")
    ELSE IF L.lastType = "class_" THEN push_back(L, id, "ClassType")
    ELSE IF isUserDefinedClass(L, id) THEN push_back(L, id, "ClassType")
    ELSE push_back(L, id, "Identifier")

\* buildIdentifier after the call of parseIdentifier
classify(L, id) ==
    IF id = W_false \/ id = W_true THEN push_back(L, id, "bool_literal")
    ELSE IF isKeyWord(id) THEN push_back(L, id, KEYWORDS[id])
    ELSE IF isDefaultType(id)
         THEN IF id = W_String THEN push_back(L, id, "ClassType")
                               ELSE push_back(L, id, "PrimitiveType")
    ELSE IF L.lastType = "class_"
         THEN push_back([L EXCEPT !.names = @ \cup {id}], id, "ClassType")
    ELSE IF isUserDefinedClass(L, id) THEN push_back(L, id, "ClassType")
    ELSE push_back(L, id, "Identifier")

buildIdentifier(L) ==
    LET P == parseIdentifier(L)
    IN  classify([L EXCEPT !.i = P.i], P.id)

---------------------------------------------------------------------------
(* tokenize *)

\* case '/' with a second '/': c = srctext[ i ]; while ( i < LENGTH && c != '\n' ) c = srctext[ ++i ];
RECURSIVE skipComment(_, _)
skipComment(L, c) ==
    IF L.i < L.LENGTH /\ c # LF
    THEN skipComment([L EXCEPT !.i = @ + 1], At(L.srctext, L.i + 1))
    ELSE L

caseMinus(L) ==
    IF nextCharacterIs(L, ">") THEN handleDoubleCharacter(L, "Pointer")
    ELSE IF \/ isBinaryOperator(L.lastType)
            \/ L.lastType = "Equals"
            \/ L.lastType = "OParen"
            \/ L.lastType = "Comma"
         THEN buildNumber([L EXCEPT !.i = @ + 1], TRUE)
    ELSE IF nextCharacterIsSame(L) THEN handleDoubleCharacter(L, "MinusMinus")
    ELSE handleSingleCharacter(L, "Minus")

caseDot(L) ==
    IF L.i + 1 < L.LENGTH /\ At(L.srctext, L.i + 1) \in Digits
    THEN buildNumber(L, FALSE)
    ELSE handleSingleCharacter(L, "Dot")

\* the default case: the diagnostic is printed and an empty TokenList returned
caseDefault(L) ==
    IF isInt(L) THEN buildNumber(L, FALSE)
    ELSE IF isAlpha(L) THEN buildIdentifier(L)
    ELSE [L EXCEPT !.st = "unrecognized"]

\* one or two characters: the doubled token if the next character is the same
oneOrTwo(L, double, single) ==
    IF nextCharacterIsSame(L) THEN handleDoubleCharacter(L, double)
                              ELSE handleSingleCharacter(L, single)

\* the body of the for loop of tokenize, up to its continue
forBody(L) ==
    LET c == At(L.srctext, L.i)
    IN  IF isSkippable(L) THEN L
        ELSE CASE c = ";" -> handleSingleCharacter(L, "Semicolon")
               [] c = "," -> handleSingleCharacter(L, "Comma")
               [] c = "(" -> handleSingleCharacter(L, "OParen")
               [] c = ")" -> handleSingleCharacter(L, "CParen")
               [] c = "{" -> handleSingleCharacter(L, "OCurlyBrace")
               [] c = "}" -> handleSingleCharacter(L, "CCurlyBrace")
               [] c = "<" -> oneOrTwo(L, "ShiftLeft", "LessThan")
               [] c = ">" -> oneOrTwo(L, "ShiftRight", "GreaterThan")
               [] c = "+" -> oneOrTwo(L, "PlusPlus", "Plus")
               [] c = "~" -> handleSingleCharacter(L, "Reference")
               [] c = "-" -> caseMinus(L)
               [] c = "*" -> oneOrTwo(L, "Exponent", "Multiply")
               [] c = "/" -> IF nextCharacterIsSame(L)
                             THEN skipComment(L, At(L.srctext, L.i))
                             ELSE handleSingleCharacter(L, "Divide")
               [] c = "%" -> handleSingleCharacter(L, "Modulus")
               [] c = ":" -> oneOrTwo(L, "ColonColon", "Colon")
               [] c = "&" -> oneOrTwo(L, "ANDAND", "AND")
               [] c = "|" -> oneOrTwo(L, "OROR", "OR")
               [] c = "=" -> oneOrTwo(L, "EqualsEquals", "Equals")
               [] c = "!" -> IF nextCharacterIs(L, "=")
                             THEN handleDoubleCharacter(L, "NotEquals")
                             ELSE handleSingleCharacter(L, "Not")
               [] c = "." -> caseDot(L)
               [] c = DQ  -> buildString(L)
               [] c = SQ  -> buildChar(L)
               [] OTHER   -> caseDefault(L)

\* for ( ; i < LENGTH; ++i ) { ... } tokens.push_back( EOF_ ); return tokens;
RECURSIVE forLoop(_)
forLoop(L) ==
    IF L.st # "scanning" THEN L
    ELSE IF L.i < L.LENGTH
         THEN LET B == forBody(L)
              IN  forLoop(IF B.st = "scanning" THEN [B EXCEPT !.i = @ + 1] ELSE B)
         ELSE [push_back(L, << >>, "EOF_") EXCEPT !.st = "returned"]

\* the lexer record of a Lexer holding text, entering tokenize with the
\* class names in names
Lexer(text, toks, idx, last, names) ==
    [srctext |-> text, tokens |-> toks, i |-> idx, LENGTH |-> Len(text),
     lastType |-> last, names |-> names, st |-> "scanning"]

\* The diagnostic of the default case adds the character to the address of a
\* 40-character literal: for a character of code 0..40 it prints a suffix of
\* the literal, for any other the pointer is out of bounds (undefined).
\* These are the characters of code <= 40 that reach the default case.
diagnosticInBounds(c) == c \in {"#", "$"}

\* how tokenize() can end for the lexer record R that its loop leaves
outcomes(R) ==
    CASE R.st = "returned"     -> {"returned"}
      [] R.st = "threw"        -> {"threw"}
      [] R.st = "unrecognized" ->
            IF diagnosticInBounds(At(R.srctext, R.i))
            THEN {"returned"} ELSE {"returned", "crashed"}

\* what the caller receives
returned(R) == IF R.st = "returned" THEN R.tokens ELSE << >>

---------------------------------------------------------------------------
(* Actions *)

\* no Parser has been constructed
NoParser ==
    /\ parser_tokens = << >>
    /\ parser_i = 0
    /\ parser_pc = "none"
    /\ program = << >>
    /\ oob = FALSE
    /\ stalled = FALSE

\* Lexer::Lexer( const std::string& ) sets LENGTH, Lexer::Lexer( std::string&& ) leaves it 0
NewLexer(text) ==
    /\ srctext' = text
    /\ tokens' = << >>
    /\ i' = 0
    /\ LENGTH' \in {0, Len(text)}
    /\ lastType' = "EOF_"
    /\ pc' = "constructed"
    /\ result' = << >>
    /\ names0' = user_defined_classnames
    /\ UNCHANGED user_defined_classnames
    /\ UNCHANGED pvars

\* Lexer::tokenize(), called once on a Lexer as main() does
tokenize ==
    /\ pc = "constructed"
    /\ LET R == forLoop(Lexer(srctext, tokens, i, lastType, user_defined_classnames))
       IN  /\ tokens' = R.tokens
           /\ i' = R.i
           /\ LENGTH' = R.LENGTH
           /\ lastType' = R.lastType
           /\ user_defined_classnames' = R.names
           /\ pc' \in outcomes(R)
           /\ result' = returned(R)
    /\ UNCHANGED << srctext, names0 >>
    /\ UNCHANGED pvars

\* the state after the construction of the first Lexer of the process on text
InitOn(text) ==
    /\ srctext = text
    /\ tokens = << >>
    /\ i = 0
    /\ LENGTH \in {0, Len(text)}
    /\ lastType = "EOF_"
    /\ user_defined_classnames = {}
    /\ pc = "constructed"
    /\ result = << >>
    /\ names0 = {}
    /\ NoParser

---------------------------------------------------------------------------
(* Source texts: concatenations of at most n pieces of a set P *)

RECURSIVE Texts(_, _)
Texts(P, n) ==
    IF n = 0 THEN { << >> }
    ELSE LET T == Texts(P, n - 1) IN T \cup { t \o p : t \in T, p \in P }

MaxChars == 3

\* any text of at most MaxChars characters of a mixed alphabet
Chars ==
    { << "a" >>, << "3" >>, << " " >>, << "-" >>, << "=" >>, << "." >>,
      << DQ >>, << SQ >>, << "/" >>, << LF >>, << "#" >>, << "@" >>, << "_" >>,
      << BSL >>, << ">" >>, << ";" >> }

Init == \E text \in Texts(Chars, MaxChars) : InitOn(text)

Next == tokenize

Spec == Init /\ [][Next]_vars

---------------------------------------------------------------------------
(* Words: one Lexer per process, on texts made of words *)

MaxWordPieces == 2

KeywordWords ==
    { W_for, W_while, W_if, W_in, W_return, W_null, W_cast, W_constexpr,
      W_namespace, W_class, W_public, W_private, W_protected, W_mutable }

WordPieces == KeywordWords \cup { << " " >>, << "_" >>, << "a" >>, << "1" >> }

InitWords == \E text \in Texts(WordPieces, MaxWordPieces) : InitOn(text)

SpecWords == InitWords /\ [][Next]_vars

---------------------------------------------------------------------------
(* Class names: any number of Lexers, one after the other, in one process *)

MaxClassPieces == 3

ClassPieces ==
    { W_class \o << " " >>, << "F", " " >>, << "G", " " >>,
      W_if \o << " " >>, W_String \o << " " >> }

InitClass == \E text \in Texts(ClassPieces, MaxClassPieces) : InitOn(text)

NextClass ==
    \/ tokenize
    \/ \E text \in Texts(ClassPieces, MaxClassPieces) :
          pc # "constructed" /\ pc # "crashed" /\ NewLexer(text)

SpecClass == InitClass /\ [][NextClass]_vars

---------------------------------------------------------------------------
(* Notions the properties are stated in *)

Finished == pc # "constructed"

\* the kinds buildIdentifier gives to a word
WordKinds ==
    { "Identifier", "ClassType", "PrimitiveType", "bool_literal" }
        \cup { KEYWORDS[w] : w \in DOMAIN KEYWORDS }

\* what a Lexer on text leaves in a process that has tokenized nothing before
Fresh(text) == forLoop(Lexer(text, << >>, 0, "EOF_", {}))

\* what a new Lexer on text leaves when the class names are names
Run(text, names) == forLoop(Lexer(text, << >>, 0, "EOF_", names))

\* a word token that is not true/false, not a keyword and not a default type
OrdinaryWord(t) ==
    /\ t.type \in WordKinds
    /\ t.value \notin {W_true, W_false} \cup KeywordWords \cup DEFAULT_TYPES

\* the token at position k of ts is the one emitted right after a class_ token
FollowsClass(ts, k) == k > 1 /\ ts[k - 1].type = "class_"

\* the number of digits s has from position k (1-based) on
RECURSIVE DigitRun(_, _)
DigitRun(s, k) ==
    IF k <= Len(s) /\ s[k] \in Digits THEN 1 + DigitRun(s, k + 1) ELSE 0

\* characters that are tokenized without looking at a quote that follows
Plain == Letters \cup Digits \cup { " ", ";", "=", "-", ".", ">" }

IsPrefix(p, s) == Len(p) <= Len(s) /\ SubSeq(s, 1, Len(p)) = p

Drop(s, n) == SubSeq(s, n + 1, Len(s))

---------------------------------------------------------------------------
(* C1: the token list tokenize returns is non-empty, its last token has    *)
(* kind EOF_ and no other token of it has kind EOF_.                       *)

C1_EndsWithSingleEOF ==
    pc = "returned" =>
        /\ result # << >>
        /\ \A k \in 1..Len(result) :
              (result[k].type = "EOF_") <=> (k = Len(result))

---------------------------------------------------------------------------
(* C2: when tokenize meets a character that starts no token, it fails with *)
(* an error: no token list is returned to the caller.                      *)

\* the character tokenize stopped at starts no token
StoppedAtNoToken ==
    /\ Finished
    /\ i < Len(srctext)
    /\ At(srctext, i) \notin
          Letters \cup Digits \cup
          { " ", TAB, LF, CR, DQ, SQ, ";", ",", "(", ")", "{", "}", "<", ">",
            "+", "~", "-", "*", "/", "%", ":", "&", "|", "=", "!", "." }

C2_NoTokenCharacterFails == StoppedAtNoToken => pc # "returned"

---------------------------------------------------------------------------
(* C3: a string literal with no closing quote before the end of the input, *)
(* or with a raw line feed or carriage return before its closing quote,    *)
(* makes tokenize fail, and no string_literal token is emitted for it.     *)
(* Stated for the first string literal of the text.                        *)

\* q is the position of the opening quote of the first string literal
FirstQuote(q) ==
    /\ q \in 1..Len(srctext)
    /\ srctext[q] = DQ
    /\ \A k \in 1..(q - 1) : srctext[k] \in Plain

\* the literal opened at q is not closed, or breaks the line before it is
BadString(q) ==
    LET closers == { c \in (q + 1)..Len(srctext) : srctext[c] = DQ }
    IN  \/ closers = {}
        \/ \E k \in (q + 1)..Len(srctext) :
              /\ srctext[k] \in {LF, CR}
              /\ \A c \in closers : k < c

C3_BadStringFails ==
    (Finished /\ \E q \in 1..Len(srctext) : FirstQuote(q) /\ BadString(q)) =>
        /\ pc = "threw"
        /\ \A k \in 1..Len(tokens) : tokens[k].type # "string_literal"

---------------------------------------------------------------------------
(* C4: the empty string literal yields exactly one string_literal token    *)
(* with empty text, and the text after it is tokenized as it is after any  *)
(* other string literal (here: after "a").                                 *)

C4_EmptyStringLiteral ==
    (Finished /\ IsPrefix(<< DQ, DQ >>, srctext)) =>
        LET R == Run(<< DQ, "a", DQ >> \o Drop(srctext, 2), names0)
        IN  /\ tokens # << >>
            /\ tokens[1] = Token(<< >>, "string_literal")
            /\ Tail(tokens) = Tail(R.tokens)
            /\ pc \in outcomes(R)

---------------------------------------------------------------------------
(* C5: a '-' followed by digits is one negative_integer_literal when the   *)
(* token emitted before it is a binary operator, Equals, OParen or Comma,  *)
(* and a Minus followed by an integer_literal otherwise, the start of the  *)
(* input included.  Stated for a '-' and one digit that stand at the start *)
(* of the text or after a one-character token, and that no digit and no    *)
(* '.' follows.                                                            *)

\* the text is [one character that is a token,] '-', a digit, and a rest
\* that does not continue the number; n is the length of the part before '-'
MinusDigitAfter(n) ==
    /\ n \in {0, 1}
    /\ Len(srctext) >= n + 2
    /\ n = 1 => srctext[1] \in { "=", "(", ",", "+", ">", ".", ";", ")", "a" }
    /\ srctext[n + 1] = "-"
    /\ srctext[n + 2] \in Digits
    /\ Len(srctext) > n + 2 => srctext[n + 3] \notin Digits \cup {"."}

SignContext(type) ==
    type \in { "Equals", "EqualsEquals", "NotEquals", "GreaterThan", "LessThan",
               "ShiftLeft", "ShiftRight", "Plus", "Minus", "Divide", "Multiply",
               "Exponent", "Modulus", "AND", "ANDAND", "OR", "OROR", "Dot",
               "ColonColon", "OParen", "Comma" }

C5_MinusBeforeDigits ==
    \A n \in {0, 1} :
        (Finished /\ MinusDigitAfter(n)) =>
            /\ Len(tokens) >= n + 1
            /\ IF n = 1 /\ SignContext(tokens[1].type)
               THEN tokens[n + 1] =
                        Token(<< "-", srctext[n + 2] >>, "negative_integer_literal")
               ELSE /\ Len(tokens) >= n + 2
                    /\ tokens[n + 1] = Token(<< "-" >>, "Minus")
                    /\ tokens[n + 2] = Token(<< srctext[n + 2] >>, "integer_literal")

---------------------------------------------------------------------------
(* C6: a maximal run of digits is an integer_literal whose text is those   *)
(* digits, unless a '.' and at least one more digit follow, and then the   *)
(* whole digits.digits is one float_literal; also when the digits are the  *)
(* last characters of the input.  Stated for a number at the start of the  *)
(* text.                                                                   *)

C6_NumberLiteral ==
    LET d  == DigitRun(srctext, 1)
        d2 == DigitRun(srctext, d + 2)
    IN  (Finished /\ d > 0) =>
            /\ tokens # << >>
            /\ IF d + 2 <= Len(srctext) /\ srctext[d + 1] = "." /\ d2 > 0
               THEN tokens[1] = Token(SubSeq(srctext, 1, d + 1 + d2), "float_literal")
               ELSE tokens[1] = Token(SubSeq(srctext, 1, d), "integer_literal")

---------------------------------------------------------------------------
(* C7: in a tokenization that starts with an empty class-name set, a word  *)
(* that is not true/false, not a keyword and not a default type is emitted *)
(* as ClassType if and only if it immediately follows a class_ token or    *)
(* the same word followed a class_ token earlier in the input, and as      *)
(* Identifier otherwise; the class-name set only grows, and only by words  *)
(* that immediately follow class_.                                         *)

DeclaredBefore(ts, k) ==
    \/ FollowsClass(ts, k)
    \/ \E j \in 1..(k - 1) :
          /\ ts[j].value = ts[k].value
          /\ OrdinaryWord(ts[j])
          /\ FollowsClass(ts, j)

C7_ClassTypeIffDeclared ==
    Finished =>
        /\ names0 = {} =>
              \A k \in 1..Len(tokens) :
                  OrdinaryWord(tokens[k]) =>
                      tokens[k].type = IF DeclaredBefore(tokens, k)
                                       THEN "ClassType" ELSE "Identifier"
        /\ names0 \subseteq user_defined_classnames
        /\ user_defined_classnames \ names0 \subseteq
              { tokens[k].value : k \in { j \in 1..Len(tokens) : FollowsClass(tokens, j) } }

\* a class name declared and then used, and a word that was never declared
C7_Witness ==
    /\ pc = "returned"
    /\ names0 = {}
    /\ user_defined_classnames # {}
    /\ \E k \in 1..Len(tokens) :
          /\ OrdinaryWord(tokens[k])
          /\ tokens[k].type = "ClassType"
          /\ ~FollowsClass(tokens, k)

---------------------------------------------------------------------------
(* C8: tokenize is a pure function of its source text: the token list a    *)
(* fresh Lexer returns for a text is the same whether or not another text  *)
(* was tokenized before it in the same process.                            *)

C8_PureFunctionOfText ==
    Finished =>
        /\ tokens = Fresh(srctext).tokens
        /\ result = returned(Fresh(srctext))
        /\ pc \in outcomes(Fresh(srctext))

(* C8, amended: the token list a fresh Lexer returns for a text is the     *)
(* same whether or not another text was tokenized before it, provided no   *)
(* word that the text alone tokenizes as Identifier is one of the class    *)
(* names the earlier tokenizations left in user_defined_classnames.        *)

NoEarlierClassNameUsed ==
    \A k \in 1..Len(Fresh(srctext).tokens) :
        Fresh(srctext).tokens[k].type = "Identifier" =>
            Fresh(srctext).tokens[k].value \notin names0

C8_PureUpToClassNames ==
    (Finished /\ NoEarlierClassNameUsed) =>
        /\ tokens = Fresh(srctext).tokens
        /\ result = returned(Fresh(srctext))
        /\ pc \in outcomes(Fresh(srctext))

\* a text with an Identifier, tokenized after a text that declared a class
C8_Witness ==
    /\ pc = "returned"
    /\ names0 # {}
    /\ NoEarlierClassNameUsed
    /\ \E k \in 1..Len(result) : result[k].type = "Identifier"
    /\ \E k \in 1..Len(result) : result[k].type = "ClassType"

---------------------------------------------------------------------------
(* C9: each of the fourteen keyword words is emitted with its own keyword  *)
(* kind and never as Identifier.                                           *)

KeywordKind ==
    (W_for :> "for_") @@ (W_while :> "while_") @@ (W_if :> "if_") @@
    (W_in :> "in_") @@ (W_return :> "return_") @@ (W_null :> "null_") @@
    (W_cast :> "cast_") @@ (W_constexpr :> "constexpr_") @@
    (W_namespace :> "namespace_") @@ (W_class :> "class_") @@
    (W_public :> "public_") @@ (W_private :> "private_") @@
    (W_protected :> "protected_") @@ (W_mutable :> "mutable_")

C9_KeywordKinds ==
    Finished =>
        /\ \A k \in 1..Len(tokens) :
              (tokens[k].type \in WordKinds /\ tokens[k].value \in KeywordWords) =>
                  tokens[k].type = KeywordKind[tokens[k].value]
        /\ srctext \in KeywordWords =>
              tokens = << Token(srctext, KeywordKind[srctext]), Token(<< >>, "EOF_") >>

---------------------------------------------------------------------------
(* C10: every word matching [A-Za-z_][A-Za-z0-9_]* is scanned as one       *)
(* identifier-like token whose text is the whole word, also a word whose   *)
(* first character is '_'.                                                 *)

IsWord(s) ==
    /\ s # << >>
    /\ s[1] \in Letters \cup {"_"}
    /\ \A k \in 1..Len(s) : s[k] \in Letters \cup Digits \cup {"_"}

C10_WordIsOneToken ==
    (Finished /\ IsWord(srctext)) =>
        /\ pc = "returned"
        /\ Len(result) = 2
        /\ result[1].value = srctext
        /\ result[1].type \in WordKinds
        /\ result[2].type = "EOF_"

---------------------------------------------------------------------------
(* AST nodes (AST.h): a node is a record, class names the C++ class *)

\* a null std::unique_ptr< Expression >
nullptr == [class |-> "nullptr"]

\* ast::Statement( ast::Expression* ): the tagged cell holding an expression
Statement(ptr) == [kind |-> "Expression", ptr |-> ptr]

Program(body) == [class |-> "Program", body |-> body]

AssignmentExpression(lhs, rhs) ==
    [class |-> "AssignmentExpression", lhs |-> lhs, rhs |-> rhs]

\* the constructor throws for isRef && isPtr; eatIfRefOrPtr never gives both
TypeName(name, isMutable, isRef, isPtr) ==
    [class |-> "TypeName", name |-> name, isMutable |-> isMutable,
     ptr_or_ref |-> IF isPtr THEN << "-", ">" >>
                    ELSE IF isRef THEN << "~" >> ELSE << >>]

Identifier(symbol) == [class |-> "Identifier", symbol |-> symbol]

\* at is history: the index of the first token of the declaration
VariableDeclaration(isMutable, type, identifier, value, at) ==
    [class |-> "VariableDeclaration", isMutable |-> isMutable, type |-> type,
     identifier |-> Identifier(identifier), value |-> value, at |-> at]

BinaryExpression(lhs, op, rhs) ==
    [class |-> "BinaryExpression", lhs |-> lhs, op |-> op, rhs |-> rhs]

\* T is the template argument
NumericLiteral(T, value) == [class |-> "NumericLiteral", T |-> T, value |-> value]

StringLiteral(value) == [class |-> "StringLiteral", value |-> value]

CharacterLiteral(value) == [class |-> "CharacterLiteral", value |-> value]

BoolLiteral(value) == [class |-> "BoolLiteral", value |-> value]

Parameter(isMutable, type, isRef, isPtr, name) ==
    [class |-> "Parameter", type |-> TypeName(type, isMutable, isRef, isPtr),
     name |-> Identifier(name)]

\* at is history: the index of the first token of the declaration
FunctionDeclaration(retType, name, params, stmts, at) ==
    [class |-> "FunctionDeclaration", returnType |-> retType, name |-> name,
     paramList |-> params, body |-> stmts, at |-> at]

AccessSpecifier == {"Public", "Private", "Protected"}

FieldDeclaration(var, spec) == [class |-> "FieldDeclaration", var |-> var, spec |-> spec]

MethodDeclaration(func, spec) == [class |-> "MethodDeclaration", func |-> func, spec |-> spec]

\* open is history: the index of the opening brace of the class body
ClassDeclaration(type, fields, methods, open) ==
    [class |-> "ClassDeclaration", type |-> type, fields |-> fields,
     methods |-> methods, open |-> open]

FunctionCall(id, params) ==
    [class |-> "FunctionCall", name |-> Identifier(id), parameters |-> params]

ReturnStatement(stmt) == [class |-> "ReturnStatement", stmt |-> stmt]

NameSpaceDeclaration(name, body) ==
    [class |-> "NameSpaceDeclaration", name |-> Identifier(name), body |-> body]

IfStatement(condition, body) ==
    [class |-> "IfStatement", condition |-> condition, body |-> body]

---------------------------------------------------------------------------
(* atoll, atof on the text of a token *)

DigitVal(c) == CHOOSE n \in 0..9 : ToString(n) = c

\* the value of the digits of s from index k on, after the digits worth acc
RECURSIVE digitsValue(_, _, _)
digitsValue(s, k, acc) ==
    IF At(s, k) \in Digits THEN digitsValue(s, k + 1, acc * 10 + DigitVal(At(s, k)))
    ELSE acc

\* the digits of s from index k on
RECURSIVE digitRun(_, _)
digitRun(s, k) ==
    IF At(s, k) \in Digits THEN << At(s, k) >> \o digitRun(s, k + 1) ELSE << >>

RECURSIVE stripZeros(_)
stripZeros(d) ==
    IF d # << >> /\ d[Len(d)] = "0" THEN stripZeros(SubSeq(d, 1, Len(d) - 1)) ELSE d

\* atoll: an optional sign, then the longest run of digits (0 if none)
atoll(s) ==
    IF At(s, 0) = "-" THEN 0 - digitsValue(s, 1, 0)
    ELSE IF At(s, 0) = "+" THEN digitsValue(s, 1, 0)
    ELSE digitsValue(s, 0, 0)

\* the conversion of the long long to uint64_t: v for v >= 0, 2^64 + v otherwise
uint64_t(v) == IF v >= 0 THEN v ELSE << "2^64 +", v >>

\* atof on sign, digits, '.', digits: the sign, the whole part and the
\* fractional digits without their trailing zeros
atof(s) ==
    LET signed == At(s, 0) \in {"-", "+"}
        k == IF signed THEN 1 ELSE 0
        w == digitRun(s, k)
        f == IF At(s, k + Len(w)) = "." THEN digitRun(s, k + Len(w) + 1) ELSE << >>
    IN  [neg |-> At(s, 0) = "-", whole |-> digitsValue(s, k, 0), frac |-> stripZeros(f)]

---------------------------------------------------------------------------
(* Token access of class Parser.  P is the parser record: tokens and i are *)
(* the members; st is "ok" while the call runs normally, "threw" after a   *)
(* throw, "crashed" after a fault, "diverged" in a loop that cannot end;   *)
(* tk is the token the last read returned, ret the last bool or pair       *)
(* returned, node the last node or list returned; beyond is what a read of *)
(* tokens[k], k >= tokens.size(), gives in this run; oob and stalled are   *)
(* history.                                                                *)

\* tokens[k]: undefined for k >= tokens.size(), where it faults or yields
\* whatever lies behind the vector
index(P, k) ==
    IF P.st # "ok" THEN P
    ELSE IF k < Len(P.tokens) THEN [P EXCEPT !.tk = P.tokens[k + 1]]
    ELSE IF P.beyond.fault THEN [P EXCEPT !.oob = TRUE, !.st = "crashed"]
    ELSE [P EXCEPT !.oob = TRUE, !.tk = P.beyond.tk]

peek(P) == index(P, P.i)

eat(P) == IF P.st # "ok" THEN P ELSE [index(P, P.i) EXCEPT !.i = @ + 1]

peekNext(P) == index(P, P.i + 1)

\* tokens.back() for k >= tokens.size()
peekTo(P, k) ==
    IF k >= Len(P.tokens) THEN index(P, Len(P.tokens) - 1) ELSE index(P, k)

throw(P) == IF P.st # "ok" THEN P ELSE [P EXCEPT !.st = "threw"]

expect(P, type) ==
    LET E == eat(P) IN IF E.tk.type # type THEN throw(E) ELSE E

expect2(P, type1, type2) ==
    LET E == eat(P) IN IF E.tk.type # type1 /\ E.tk.type # type2 THEN throw(E) ELSE E

isRefOrPtr(tk) == tk.type \in {"Reference", "Pointer"}

isAccessSpecifier(type) == type \in {"public_", "protected_", "private_"}

isMultParseLevel(tk) == tk.type \in {"Multiply", "Divide", "Modulus"}

eatIfRefOrPtr(P) ==
    LET Q == peek(P)
    IN  IF Q.tk.type = "Reference" THEN [eat(Q) EXCEPT !.ret = << TRUE, FALSE >>]
        ELSE IF Q.tk.type = "Pointer" THEN [eat(Q) EXCEPT !.ret = << FALSE, TRUE >>]
        ELSE [Q EXCEPT !.ret = << FALSE, FALSE >>]

\* mutable eaten and forgotten
eatMutable(P) ==
    LET Q == peek(P)
    IN  IF Q.tk.type = "mutable_" THEN [eat(Q) EXCEPT !.ret = FALSE]
        ELSE [Q EXCEPT !.ret = FALSE]

eatIfMutable(P) ==
    LET Q == peek(P)
    IN  IF Q.tk.type = "mutable_" THEN [eat(Q) EXCEPT !.ret = TRUE]
        ELSE [Q EXCEPT !.ret = FALSE]

\* the end of an iteration of a loop that began in state before: an
\* iteration that consumed nothing repeats for ever
progress(before, after) ==
    IF after.st = "ok" /\ after.i = before.i
    THEN [after EXCEPT !.stalled = TRUE, !.st = "diverged"]
    ELSE after

\* a release that hands over no node
releaseNull(R) == [R EXCEPT !.node = Statement(nullptr)]

\* the node of R becomes the Statement cell holding it
release(R) == [R EXCEPT !.node = Statement(R.node)]

---------------------------------------------------------------------------
(* The recursive descent of class Parser *)

\* The member functions call one another through call, defined after them.
\* Each of them returns the record it is given when that record is not "ok",
\* and looks at the record a call returned before it goes on.
RECURSIVE call(_, _, _)

parsePrimaryExpression(P) ==
    IF P.st # "ok" THEN P
    ELSE
    LET Q == peek(P)
        tk == Q.tk.type
        E == eat(Q)
        N == peekNext(Q)
        I == eat(N)
        value == call("parseExpression", E, FALSE)
    IN  IF Q.st # "ok" THEN Q
        ELSE CASE tk = "Identifier" ->
                    IF N.st # "ok" THEN N
                    ELSE IF N.tk.type = "OParen" THEN call("parseFunctionCall", N, FALSE)
                    ELSE [I EXCEPT !.node = Identifier(I.tk.value)]
               [] tk = "negative_integer_literal" ->
                    [E EXCEPT !.node = NumericLiteral("int64_t", atoll(E.tk.value))]
               [] tk = "integer_literal" ->
                    [E EXCEPT !.node = NumericLiteral("uint64_t", uint64_t(atoll(E.tk.value)))]
               [] tk = "float_literal" ->
                    [E EXCEPT !.node = NumericLiteral("double", atof(E.tk.value))]
               [] tk = "string_literal" -> [E EXCEPT !.node = StringLiteral(E.tk.value)]
               [] tk = "char_literal" -> [E EXCEPT !.node = CharacterLiteral(E.tk.value)]
               [] tk = "bool_literal" -> [E EXCEPT !.node = BoolLiteral(E.tk.value = W_true)]
               [] tk = "OParen" ->
                    IF value.st # "ok" THEN value
                    ELSE [expect(value, "CParen") EXCEPT !.node = value.node]
               [] OTHER -> throw(Q)

\* the while loop of parseDotExpression; L.node is left
dotLoop(L) ==
    IF L.st # "ok" THEN L
    ELSE
    LET Q == peek(L)
        op == eat(Q)
        right == call("parsePrimaryExpression", op, << >>)
    IN  IF Q.st = "ok" /\ Q.tk.type = "Dot"
        THEN IF right.st # "ok" THEN right
             ELSE call("dotLoop",
                       [right EXCEPT !.node = BinaryExpression(L.node, op.tk.value, right.node)],
                       << >>)
        ELSE Q

parseDotExpression(P) ==
    IF P.st # "ok" THEN P
    ELSE LET left == call("parsePrimaryExpression", P, << >>)
         IN  IF left.st # "ok" THEN left ELSE call("dotLoop", left, << >>)

\* a loop that folds ** to the right
exponentialLoopRight(L) ==
    IF L.st # "ok" THEN L
    ELSE
    LET Q == peek(L)
        op == eat(Q)
        right == call("parseExponentialExpression", op, << >>)
    IN  IF Q.st = "ok" /\ Q.tk.type = "Exponent"
        THEN IF right.st # "ok" THEN right
             ELSE [right EXCEPT !.node = BinaryExpression(L.node, op.tk.value, right.node)]
        ELSE Q

\* the while loop of parseExponentialExpression; L.node is left
exponentialLoop(L) ==
    IF L.st # "ok" THEN L
    ELSE
    LET Q == peek(L)
        op == eat(Q)
        right == call("parseDotExpression", op, << >>)
    IN  IF Q.st = "ok" /\ Q.tk.type = "Exponent"
        THEN IF right.st # "ok" THEN right
             ELSE call("exponentialLoop",
                       [right EXCEPT !.node = BinaryExpression(L.node, op.tk.value, right.node)],
                       << >>)
        ELSE Q

parseExponentialExpression(P) ==
    IF P.st # "ok" THEN P
    ELSE LET left == call("parseDotExpression", P, << >>)
         IN  IF left.st # "ok" THEN left ELSE call("exponentialLoop", left, << >>)

\* the while loop of parseMultiplicativeExpression; L.node is left
multiplicativeLoop(L) ==
    IF L.st # "ok" THEN L
    ELSE
    LET Q == peek(L)
        op == eat(Q)
        right == call("parseExponentialExpression", op, << >>)
    IN  IF Q.st = "ok" /\ isMultParseLevel(Q.tk)
        THEN IF right.st # "ok" THEN right
             ELSE call("multiplicativeLoop",
                       [right EXCEPT !.node = BinaryExpression(L.node, op.tk.value, right.node)],
                       << >>)
        ELSE Q

parseMultiplicativeExpression(P) ==
    IF P.st # "ok" THEN P
    ELSE LET left == call("parseExponentialExpression", P, << >>)
         IN  IF left.st # "ok" THEN left ELSE call("multiplicativeLoop", left, << >>)

\* the while loop of parseAdditiveExpression, which compares the text of
\* the token; L.node is left
additiveLoop(L) ==
    IF L.st # "ok" THEN L
    ELSE
    LET Q == peek(L)
        op == eat(Q)
        right == call("parseMultiplicativeExpression", op, << >>)
    IN  IF Q.st = "ok" /\ (Q.tk.value = << "+" >> \/ Q.tk.value = << "-" >>)
        THEN IF right.st # "ok" THEN right
             ELSE call("additiveLoop",
                       [right EXCEPT !.node = BinaryExpression(L.node, op.tk.value, right.node)],
                       << >>)
        ELSE Q

parseAdditiveExpression(P) ==
    IF P.st # "ok" THEN P
    ELSE LET left == call("parseMultiplicativeExpression", P, << >>)
         IN  IF left.st # "ok" THEN left ELSE call("additiveLoop", left, << >>)

\* the while loop of parseBooleanExpression; L.node is left
booleanLoop(L) ==
    IF L.st # "ok" THEN L
    ELSE
    LET Q == peek(L)
        op == eat(Q)
        right == call("parseAdditiveExpression", op, << >>)
    IN  IF Q.st = "ok" /\ Q.tk.type \in {"EqualsEquals", "NotEquals"}
        THEN IF right.st # "ok" THEN right
             ELSE call("booleanLoop",
                       [right EXCEPT !.node = BinaryExpression(L.node, op.tk.value, right.node)],
                       << >>)
        ELSE Q

parseBooleanExpression(P) ==
    IF P.st # "ok" THEN P
    ELSE LET left == call("parseAdditiveExpression", P, << >>)
         IN  IF left.st # "ok" THEN left ELSE call("booleanLoop", left, << >>)

\* the while loop of parseFunctionCall; P.tk is param
callParameters(P, params) ==
    IF P.st # "ok" THEN P
    ELSE IF P.tk.type # "CParen"
    THEN LET A == call("parseAdditiveExpression", P, << >>)
             K == peek(A)
             C == IF K.tk.type = "Comma" THEN eat(K) ELSE K
             N == progress(P, peek(C))
         IN  IF A.st # "ok" THEN A
             ELSE IF N.st # "ok" THEN N
             ELSE call("callParameters", N, Append(params, Statement(A.node)))
    ELSE [P EXCEPT !.node = params]

parseFunctionCall(P, isLoneCall) ==
    IF P.st # "ok" THEN P
    ELSE
    LET f_name == expect(P, "Identifier")
        O == peek(expect(f_name, "OParen"))
        params == call("callParameters", O, << >>)
        C == expect(params, "CParen")
        S == IF isLoneCall THEN expect(C, "Semicolon") ELSE C
    IN  IF O.st # "ok" THEN O
        ELSE IF params.st # "ok" THEN params
        ELSE [S EXCEPT !.node = FunctionCall(f_name.tk.value, params.node)]

\* an assignment whose right side is no assignment
parseAssignmentExpressionOnce(P, TopCall) ==
    IF P.st # "ok" THEN P
    ELSE
    LET N == IF TopCall THEN peekNext(P) ELSE P
        next == N.tk.type
        V == call("parseVariableDeclaration", N, << >>)
        left == call("parseBooleanExpression", N, << >>)
        Q == peek(left)
        right == call("parseBooleanExpression", eat(Q), << >>)
        A == IF Q.tk.type = "Equals"
             THEN [right EXCEPT !.node = AssignmentExpression(left.node, right.node)]
             ELSE Q
    IN  IF N.st # "ok" THEN N
        ELSE IF TopCall /\ next \in {"ClassType", "PrimitiveType", "Reference", "Pointer"}
        THEN IF V.st # "ok" THEN V ELSE [V EXCEPT !.node = V.node.ptr]
        ELSE IF left.st # "ok" THEN left
        ELSE IF A.st # "ok" THEN A
        ELSE IF TopCall THEN [expect(A, "Semicolon") EXCEPT !.node = A.node]
        ELSE A

parseAssignmentExpression(P, TopCall) ==
    IF P.st # "ok" THEN P
    ELSE
    LET N == IF TopCall THEN peekNext(P) ELSE P
        next == N.tk.type
        V == call("parseVariableDeclaration", N, << >>)
        left == call("parseBooleanExpression", N, << >>)
        Q == peek(left)
        right == call("parseAssignmentExpression", eat(Q), FALSE)
        A == IF Q.tk.type = "Equals"
             THEN [right EXCEPT !.node = AssignmentExpression(left.node, right.node)]
             ELSE Q
    IN  IF N.st # "ok" THEN N
        ELSE IF TopCall /\ next \in {"ClassType", "PrimitiveType", "Reference", "Pointer"}
        THEN IF V.st # "ok" THEN V ELSE [V EXCEPT !.node = V.node.ptr]
        ELSE IF left.st # "ok" THEN left
        ELSE IF A.st # "ok" THEN A
        ELSE IF TopCall THEN [expect(A, "Semicolon") EXCEPT !.node = A.node]
        ELSE A

parseExpression(P, TopCall) == call("parseAssignmentExpression", P, TopCall)

parseVariableDeclaration(P) ==
    IF P.st # "ok" THEN P
    ELSE
    LET isMutable == eatIfMutable(P)
        typestr == expect2(isMutable, "ClassType", "PrimitiveType")
        R == eatIfRefOrPtr(typestr)
        type == TypeName(typestr.tk.value, isMutable.ret, R.ret[1], R.ret[2])
        name == expect(R, "Identifier")
        K == peek(name)
        E == expect(K, "Equals")
        expr == call("parseExpression", E, TRUE)
    IN  IF K.st # "ok" THEN K
        ELSE IF K.tk.type = "Semicolon"
        THEN [eat(K) EXCEPT
                !.node = Statement(VariableDeclaration(FALSE, type, name.tk.value, nullptr, P.i))]
        ELSE IF E.st # "ok" THEN E
        ELSE IF expr.st # "ok" THEN expr
        ELSE [expr EXCEPT
                !.node = Statement(VariableDeclaration(isMutable.ret, type, name.tk.value,
                                                       expr.node, P.i))]

parseReturnStatement(P) ==
    IF P.st # "ok" THEN P
    ELSE LET ret == expect(P, "return_")
             S == call("parseStatement", ret, TRUE)
         IN  IF ret.st # "ok" THEN ret
             ELSE IF S.st # "ok" THEN S
             ELSE [S EXCEPT !.node = Statement(ReturnStatement(S.node))]

\* the loop that generates the parameter list
parameterList(P, f_p_list) ==
    IF P.st # "ok" THEN P
    ELSE
    LET Q == peek(P)
        isMutable == eatIfMutable(Q)
        p_type == eat(isMutable)
        R == eatIfRefOrPtr(p_type)
        p_name == expect(R, "Identifier")
        maybe_comma == peek(p_name)
        C == IF maybe_comma.tk.type = "Comma" THEN eat(maybe_comma)
             ELSE IF maybe_comma.tk.type # "CParen" THEN throw(maybe_comma)
             ELSE maybe_comma
        N == progress(Q, C)
    IN  IF Q.st # "ok" THEN Q
        ELSE IF Q.tk.type \in {"ClassType", "PrimitiveType", "mutable_"}
        THEN IF N.st # "ok" THEN N
             ELSE call("parameterList", N,
                       Append(f_p_list, Parameter(isMutable.ret, p_type.tk.value,
                                                  R.ret[1], R.ret[2], p_name.tk.value)))
        ELSE [Q EXCEPT !.node = f_p_list]

\* a loop over the function body that goes on behind a return statement
functionBodyOn(P, f_body) ==
    IF P.st # "ok" THEN P
    ELSE
    LET Q == peek(P)
        R == call("parseReturnStatement", Q, << >>)
        S == progress(Q, call("parseStatement", Q, TRUE))
    IN  IF Q.st # "ok" THEN Q
        ELSE IF Q.tk.type # "CCurlyBrace"
        THEN IF Q.tk.value = W_return
             THEN IF R.st # "ok" THEN R
                  ELSE call("functionBody", R, Append(f_body, R.node))
             ELSE IF S.st # "ok" THEN S
             ELSE call("functionBody", S, Append(f_body, S.node))
        ELSE [Q EXCEPT !.node = f_body]

\* the loop that generates the function body, which compares the text of
\* the token with "return"
functionBody(P, f_body) ==
    IF P.st # "ok" THEN P
    ELSE
    LET Q == peek(P)
        R == call("parseReturnStatement", Q, << >>)
        S == progress(Q, call("parseStatement", Q, TRUE))
    IN  IF Q.st # "ok" THEN Q
        ELSE IF Q.tk.type # "CCurlyBrace"
        THEN IF Q.tk.value = W_return
             THEN IF R.st # "ok" THEN R ELSE [R EXCEPT !.node = Append(f_body, R.node)]
             ELSE IF S.st # "ok" THEN S
             ELSE call("functionBody", S, Append(f_body, S.node))
        ELSE [Q EXCEPT !.node = f_body]

parseFunctionDeclaration(P) ==
    IF P.st # "ok" THEN P
    ELSE
    LET isMutable == eatIfMutable(P)
        type == expect2(isMutable, "ClassType", "PrimitiveType")
        R == eatIfRefOrPtr(type)
        f_rettype == TypeName(type.tk.value, isMutable.ret, R.ret[1], R.ret[2])
        f_name == expect(R, "Identifier")
        O == expect(f_name, "OParen")
        f_p_list == call("parameterList", O, << >>)
        B == expect(expect(f_p_list, "CParen"), "OCurlyBrace")
        f_body == call("functionBody", B, << >>)
        C == expect(f_body, "CCurlyBrace")
    IN  IF O.st # "ok" THEN O
        ELSE IF f_p_list.st # "ok" THEN f_p_list
        ELSE IF B.st # "ok" THEN B
        ELSE IF f_body.st # "ok" THEN f_body
        ELSE IF C.st # "ok" THEN C
        ELSE [C EXCEPT
                !.node = Statement(FunctionDeclaration(f_rettype, Identifier(f_name.tk.value),
                                                       f_p_list.node, f_body.node, P.i))]

handleIdentifier(P) ==
    IF P.st # "ok" THEN P ELSE release(call("parseAssignmentExpression", P, TRUE))

handleMutable(P) ==
    IF P.st # "ok" THEN P
    ELSE
    LET tk == peekNext(P)
        T2 == peekTo(tk, P.i + 2)
        ref == isRefOrPtr(T2.tk)
        tk2 == IF ref THEN peekTo(T2, P.i + 3) ELSE T2
        idx == IF ref THEN 1 ELSE 0
        tk3 == peekTo(tk2, P.i + 3 + idx)
    IN  IF tk.st # "ok" THEN tk
        ELSE IF tk.tk.type # "ClassType" /\ tk.tk.type # "PrimitiveType" THEN throw(tk)
        ELSE IF tk2.tk.type = "Equals"
        THEN release(call("parseAssignmentExpression", tk2, TRUE))
        ELSE IF tk2.tk.type = "Identifier"
        THEN IF tk3.tk.type = "Equals" \/ tk3.tk.type = "Semicolon"
             THEN call("parseVariableDeclaration", tk3, << >>)
             ELSE call("parseFunctionDeclaration", tk3, << >>)
        ELSE throw(tk2)

handleType(P) ==
    IF P.st # "ok" THEN P
    ELSE
    LET N == peekNext(P)
        ref == isRefOrPtr(N.tk)
        tk == IF ref THEN peekTo(N, P.i + 2) ELSE N
        idx == IF ref THEN 1 ELSE 0
        tk2 == peekTo(tk, P.i + 2 + idx)
    IN  IF N.st # "ok" THEN N
        ELSE IF tk.tk.type # "Identifier" THEN throw(tk)
        ELSE IF tk2.tk.type = "Equals" THEN call("parseVariableDeclaration", tk2, << >>)
        ELSE call("parseFunctionDeclaration", tk2, << >>)

\* every specifier taken for public
specifierPublic(type) == "Public"

\* the access a specifier token sets
specifier(type) ==
    CASE type = "public_" -> "Public"
      [] type = "protected_" -> "Protected"
      [] type = "private_" -> "Private"

\* the while loop of parseClassDefinition
classBody(P, fields, methods, currentspec) ==
    IF P.st # "ok" THEN P
    ELSE
    LET Q == peek(P)
        first == Q.tk
        T == IF first.type = "mutable_" THEN peekNext(Q)
             ELSE IF isAccessSpecifier(first.type) THEN peek(expect(eat(Q), "Colon"))
             ELSE Q
        idx0 == IF first.type = "mutable_" THEN 1 ELSE 0
        spec == IF first.type # "mutable_" /\ isAccessSpecifier(first.type)
                THEN specifier(first.type) ELSE currentspec
        T2 == peekTo(T, T.i + 1 + idx0)
        idx == IF isRefOrPtr(T2.tk) THEN idx0 + 1 ELSE idx0
        tk3 == peekTo(T2, T.i + 2 + idx)
        func == progress(Q, call("parseFunctionDeclaration", tk3, << >>))
        var == progress(Q, call("parseVariableDeclaration", tk3, << >>))
    IN  IF Q.st # "ok" THEN Q
        ELSE IF Q.tk.type = "CCurlyBrace"
        THEN [Q EXCEPT !.node = [fields |-> fields, methods |-> methods]]
        ELSE IF T.st # "ok" THEN T
        ELSE IF T.tk.type # "ClassType" /\ T.tk.type # "PrimitiveType" THEN throw(T)
        ELSE IF tk3.tk.type = "OParen"
        THEN IF func.st # "ok" THEN func
             ELSE call("classBody", func,
                       << fields, Append(methods, MethodDeclaration(func.node.ptr, spec)), spec >>)
        ELSE IF var.st # "ok" THEN var
             ELSE call("classBody", var,
                       << Append(fields, FieldDeclaration(var.node.ptr, spec)), methods, spec >>)

parseClassDefinition(P) ==
    IF P.st # "ok" THEN P
    ELSE
    LET typestr == expect(eat(P), "ClassType")
        O == expect(typestr, "OCurlyBrace")
        body == call("classBody", O, << << >>, << >>, "Public" >>)
        C == expect(body, "CCurlyBrace")
        type == TypeName(typestr.tk.value, FALSE, FALSE, FALSE)
    IN  IF O.st # "ok" THEN O
        ELSE IF body.st # "ok" THEN body
        ELSE IF C.st # "ok" THEN C
        ELSE [C EXCEPT !.node = Statement(ClassDeclaration(type, body.node.fields,
                                                           body.node.methods, O.i - 1))]

\* the while loop of parseNameSpaceDeclaration
namespaceBody(P, stmtList) ==
    IF P.st # "ok" THEN P
    ELSE
    LET Q == peek(P)
        S == progress(Q, call("parseStatement", Q, TRUE))
    IN  IF Q.st # "ok" THEN Q
        ELSE IF Q.tk.type # "CCurlyBrace"
        THEN IF S.st # "ok" THEN S
             ELSE call("namespaceBody", S, Append(stmtList, S.node))
        ELSE [Q EXCEPT !.node = stmtList]

parseNameSpaceDeclaration(P) ==
    IF P.st # "ok" THEN P
    ELSE
    LET nsp_name == expect(eat(P), "Identifier")
        O == expect(nsp_name, "OCurlyBrace")
        stmtList == call("namespaceBody", O, << >>)
        C == expect(stmtList, "CCurlyBrace")
    IN  IF O.st # "ok" THEN O
        ELSE IF stmtList.st # "ok" THEN stmtList
        ELSE [C EXCEPT !.node = Statement(NameSpaceDeclaration(nsp_name.tk.value, stmtList.node))]

\* a test of the condition that lets an identifier through as well
IdentifierIsCondition(condition) ==
    condition.class \notin {"BinaryExpression", "BoolLiteral", "NumericLiteral", "Identifier"}

\* NOT_VALID_IF_CONDITION: the dynamic_casts of the condition
NOT_VALID_IF_CONDITION(condition) ==
    condition.class \notin {"BinaryExpression", "BoolLiteral", "NumericLiteral"}

\* the while loop of parseIfStatement, which parses expressions
ifBody(P, stmts) ==
    IF P.st # "ok" THEN P
    ELSE
    LET Q == peek(P)
        S == progress(Q, call("parseExpression", Q, TRUE))
    IN  IF Q.st # "ok" THEN Q
        ELSE IF Q.tk.type # "CCurlyBrace"
        THEN IF S.st # "ok" THEN S
             ELSE call("ifBody", S, Append(stmts, Statement(S.node)))
        ELSE [Q EXCEPT !.node = stmts]

parseIfStatement(P) ==
    IF P.st # "ok" THEN P
    ELSE
    LET O == expect(eat(P), "OParen")
        condition == call("parseExpression", O, FALSE)
        B == peek(expect(condition, "CParen"))
        stmts == call("ifBody", eat(B), << >>)
        C == expect(stmts, "CCurlyBrace")
        S == call("parseStatement", B, FALSE)
    IN  IF O.st # "ok" THEN O
        ELSE IF condition.st # "ok" THEN condition
        ELSE IF NOT_VALID_IF_CONDITION(condition.node) THEN throw(condition)
        ELSE IF B.st # "ok" THEN B
        ELSE IF B.tk.type = "OCurlyBrace"
        THEN IF stmts.st # "ok" THEN stmts
             ELSE [C EXCEPT !.node = Statement(IfStatement(condition.node, stmts.node))]
        ELSE IF S.st # "ok" THEN S
        ELSE [S EXCEPT !.node = Statement(IfStatement(condition.node, << S.node >>))]

\* a dispatcher that allows declarations everywhere
parseStatementAllowing(P, AllowDeclarations) ==
    IF P.st # "ok" THEN P
    ELSE
    LET Q == peek(P)
        type == Q.tk.type
    IN  IF Q.st # "ok" THEN Q
        ELSE CASE type = "if_" -> call("parseIfStatement", Q, << >>)
               [] type = "namespace_" ->
                    IF TRUE THEN call("parseNameSpaceDeclaration", Q, << >>)
                    ELSE throw(Q)
               [] type = "Identifier" -> call("handleIdentifier", Q, << >>)
               [] type \in {"PrimitiveType", "ClassType"} -> call("handleType", Q, << >>)
               [] type = "mutable_" -> call("handleMutable", Q, << >>)
               [] type = "class_" ->
                    IF TRUE THEN call("parseClassDefinition", Q, << >>)
                    ELSE throw(Q)
               [] OTHER -> release(call("parseExpression", Q, TRUE))

parseStatement(P, AllowDeclarations) ==
    IF P.st # "ok" THEN P
    ELSE
    LET Q == peek(P)
        type == Q.tk.type
    IN  IF Q.st # "ok" THEN Q
        ELSE CASE type = "if_" -> call("parseIfStatement", Q, << >>)
               [] type = "namespace_" ->
                    IF AllowDeclarations THEN call("parseNameSpaceDeclaration", Q, << >>)
                    ELSE throw(Q)
               [] type = "Identifier" -> call("handleIdentifier", Q, << >>)
               [] type \in {"PrimitiveType", "ClassType"} -> call("handleType", Q, << >>)
               [] type = "mutable_" -> call("handleMutable", Q, << >>)
               [] type = "class_" ->
                    IF AllowDeclarations THEN call("parseClassDefinition", Q, << >>)
                    ELSE throw(Q)
               [] OTHER -> release(call("parseExpression", Q, TRUE))

not_eof(P) == peek(P)

\* the while loop of produceAST
produceLoop(P, body) ==
    IF P.st # "ok" THEN P
    ELSE
    LET Q == not_eof(P)
        S == progress(Q, call("parseStatement", Q, TRUE))
    IN  IF Q.st # "ok" THEN Q
        ELSE IF Q.tk.type # "EOF_"
        THEN IF S.st # "ok" THEN S
             ELSE call("produceLoop", S, Append(body, S.node))
        ELSE [Q EXCEPT !.node = Program(body)]

\* the call of the member function or loop fn on P with the arguments x
call(fn, P, x) ==
    CASE fn = "parseStatement" -> parseStatement(P, x)
      [] fn = "parseIfStatement" -> parseIfStatement(P)
      [] fn = "ifBody" -> ifBody(P, x)
      [] fn = "parseNameSpaceDeclaration" -> parseNameSpaceDeclaration(P)
      [] fn = "namespaceBody" -> namespaceBody(P, x)
      [] fn = "parseClassDefinition" -> parseClassDefinition(P)
      [] fn = "classBody" -> classBody(P, x[1], x[2], x[3])
      [] fn = "handleType" -> handleType(P)
      [] fn = "handleMutable" -> handleMutable(P)
      [] fn = "handleIdentifier" -> handleIdentifier(P)
      [] fn = "parseFunctionDeclaration" -> parseFunctionDeclaration(P)
      [] fn = "parameterList" -> parameterList(P, x)
      [] fn = "functionBody" -> functionBody(P, x)
      [] fn = "parseReturnStatement" -> parseReturnStatement(P)
      [] fn = "parseVariableDeclaration" -> parseVariableDeclaration(P)
      [] fn = "parseExpression" -> parseExpression(P, x)
      [] fn = "parseAssignmentExpression" -> parseAssignmentExpression(P, x)
      [] fn = "parseFunctionCall" -> parseFunctionCall(P, x)
      [] fn = "callParameters" -> callParameters(P, x)
      [] fn = "parseBooleanExpression" -> parseBooleanExpression(P)
      [] fn = "booleanLoop" -> booleanLoop(P)
      [] fn = "parseAdditiveExpression" -> parseAdditiveExpression(P)
      [] fn = "additiveLoop" -> additiveLoop(P)
      [] fn = "parseMultiplicativeExpression" -> parseMultiplicativeExpression(P)
      [] fn = "multiplicativeLoop" -> multiplicativeLoop(P)
      [] fn = "parseExponentialExpression" -> parseExponentialExpression(P)
      [] fn = "exponentialLoop" -> exponentialLoop(P)
      [] fn = "parseDotExpression" -> parseDotExpression(P)
      [] fn = "dotLoop" -> dotLoop(P)
      [] fn = "parsePrimaryExpression" -> parsePrimaryExpression(P)
      [] fn = "produceLoop" -> produceLoop(P, x)

\* the parser record of a Parser holding toks at index idx, in a run where
\* a read beyond the tokens gives b
Parser(toks, idx, b) ==
    [tokens |-> toks, i |-> idx, st |-> "ok", tk |-> Token(<< >>, "EOF_"),
     ret |-> << FALSE, FALSE >>, node |-> nullptr, beyond |-> b,
     oob |-> FALSE, stalled |-> FALSE]

\* what a read of tokens[k], k >= tokens.size(), can give: a fault, or a
\* token made of the bytes that lie there
Fault == [fault |-> TRUE, tk |-> Token(<< >>, "EOF_")]

Beyond ==
    { Fault } \cup
    { [fault |-> FALSE, tk |-> Token(<< >>, type)] :
        type \in {"EOF_", "Identifier", "PrimitiveType", "Semicolon", "CCurlyBrace",
                  "Equals", "OParen", "CParen", "integer_literal"} }

\* the choices that matter to produceAST() on toks: a run that reads nothing
\* beyond the tokens is the same under each of them
beyondOf(toks, idx) ==
    IF call("produceLoop", Parser(toks, idx, Fault), << >>).oob THEN Beyond ELSE { Fault }

\* how produceAST() ends for the parser record R that its loop leaves
ended(R) ==
    CASE R.st = "ok" -> "returned"
      [] R.st = "threw" -> "threw"
      [] R.st = "crashed" -> "crashed"
      [] R.st = "diverged" -> "diverged"

---------------------------------------------------------------------------
(* Parser actions *)

\* Parser::Parser( TokenList ) on a token list, in a process without Lexer
InitParser(toks) ==
    /\ srctext = << >>
    /\ tokens = << >>
    /\ i = 0
    /\ LENGTH = 0
    /\ lastType = "EOF_"
    /\ user_defined_classnames = {}
    /\ pc = "none"
    /\ result = << >>
    /\ names0 = {}
    /\ parser_tokens = toks
    /\ parser_i = 0
    /\ parser_pc = "constructed"
    /\ program = << >>
    /\ oob = FALSE
    /\ stalled = FALSE

\* Parser::produceAST(), called once on a Parser as main() does
produceAST ==
    /\ parser_pc = "constructed"
    /\ \E b \in beyondOf(parser_tokens, parser_i) :
         LET R == call("produceLoop", Parser(parser_tokens, parser_i, b), << >>)
         IN  /\ parser_i' = R.i
             /\ parser_pc' = ended(R)
             /\ program' = IF R.st = "ok" THEN R.node ELSE << >>
             /\ oob' = R.oob
             /\ stalled' = R.stalled
    /\ UNCHANGED parser_tokens
    /\ UNCHANGED lvars

---------------------------------------------------------------------------
(* Tokens as tokenize() emits them, and token lists made of pieces *)

Tk ==
    [ EOF |-> Token(<< >>, "EOF_"),
      a |-> Token(<< "a" >>, "Identifier"),
      b |-> Token(<< "b" >>, "Identifier"),
      f |-> Token(<< "f" >>, "Identifier"),
      one |-> Token(<< "1" >>, "integer_literal"),
      true |-> Token(W_true, "bool_literal"),
      str |-> Token(<< "s" >>, "string_literal"),
      int |-> Token(W_int, "PrimitiveType"),
      F |-> Token(<< "F" >>, "ClassType"),
      plus |-> Token(<< "+" >>, "Plus"),
      minus |-> Token(<< "-" >>, "Minus"),
      star |-> Token(<< "*" >>, "Multiply"),
      pow |-> Token(<< "*", "*" >>, "Exponent"),
      dot |-> Token(<< "." >>, "Dot"),
      eqeq |-> Token(<< "=", "=" >>, "EqualsEquals"),
      eq |-> Token(<< "=" >>, "Equals"),
      lp |-> Token(<< "(" >>, "OParen"),
      rp |-> Token(<< ")" >>, "CParen"),
      lb |-> Token(<< "{" >>, "OCurlyBrace"),
      rb |-> Token(<< "}" >>, "CCurlyBrace"),
      semi |-> Token(<< ";" >>, "Semicolon"),
      comma |-> Token(<< "," >>, "Comma"),
      colon |-> Token(<< ":" >>, "Colon"),
      ref |-> Token(<< "~" >>, "Reference"),
      ptr |-> Token(<< "-", ">" >>, "Pointer"),
      if |-> Token(W_if, "if_"),
      namespace |-> Token(W_namespace, "namespace_"),
      class |-> Token(W_class, "class_"),
      public |-> Token(W_public, "public_"),
      private |-> Token(W_private, "private_"),
      mutable |-> Token(W_mutable, "mutable_"),
      return |-> Token(W_return, "return_") ]

\* the token lists a Parser is constructed on: at most n pieces of P, then EOF_
TokenLists(P, n) == { t \o << Tk.EOF >> : t \in Texts(P, n) }

---------------------------------------------------------------------------
(* Parser runs: one Parser per process, on a token list *)

NextParser == produceAST

ParserFinished == parser_pc # "constructed"

\* the tokens before the final EOF_
Body(toks) == SubSeq(toks, 1, Len(toks) - 1)

---------------------------------------------------------------------------
(* Expression statements: operands joined by operators, with parentheses *)

MaxExprPieces == 3

Operators ==
    { Tk.eqeq, Token(<< "!", "=" >>, "NotEquals"), Tk.plus, Tk.minus, Tk.star,
      Token(<< "/" >>, "Divide"), Token(<< "%" >>, "Modulus"), Tk.pow, Tk.dot }

ExprPieces ==
    { << Tk.a, op >> : op \in Operators } \cup
    { << Tk.lp, Tk.one, Tk.plus, Tk.b, Tk.rp, op >> :
        op \in {Tk.star, Tk.pow} }

ExprEnds ==
    { << Tk.b, Tk.semi >>, << Tk.lp, Tk.a, Tk.minus, Tk.b, Tk.rp, Tk.semi >> }

InitExpr ==
    \E t \in Texts(ExprPieces, MaxExprPieces), e \in ExprEnds :
        InitParser(t \o e \o << Tk.EOF >>)

SpecExpr == InitExpr /\ [][NextParser]_vars

\* the level of an operator token on the ladder, 0 for any other token
Level(tk) ==
    CASE tk.type \in {"EqualsEquals", "NotEquals"} -> 1
      [] tk.type \in {"Plus", "Minus"} -> 2
      [] tk.type \in {"Multiply", "Divide", "Modulus"} -> 3
      [] tk.type = "Exponent" -> 4
      [] tk.type = "Dot" -> 5
      [] OTHER -> 0

\* the number of parentheses open before the k-th token of ts
RECURSIVE Depth(_, _)
Depth(ts, k) ==
    IF k = 1 THEN 0
    ELSE Depth(ts, k - 1) + (IF ts[k - 1].type = "OParen" THEN 1
                              ELSE IF ts[k - 1].type = "CParen" THEN -1 ELSE 0)

Balanced(ts) ==
    /\ \A k \in 1..(Len(ts) + 1) : Depth(ts, k) >= 0
    /\ Depth(ts, Len(ts) + 1) = 0

\* the operators of ts outside every parenthesis
TopOperators(ts) == { k \in 1..Len(ts) : Level(ts[k]) > 0 /\ Depth(ts, k) = 0 }

IllFormed == [class |-> "ill-formed"]

\* the tree of the expression ts by the ladder: split at the last operator
\* of the loosest level outside the parentheses; IllFormed if ts is no
\* expression over the operators and parentheses
RECURSIVE Tree(_)
Tree(ts) ==
    IF ts = << >> \/ ~Balanced(ts) THEN IllFormed
    ELSE IF TopOperators(ts) # {}
    THEN LET loosest == CHOOSE l \in 1..5 :
                          /\ \E k \in TopOperators(ts) : Level(ts[k]) = l
                          /\ \A k \in TopOperators(ts) : Level(ts[k]) >= l
             at == CHOOSE k \in TopOperators(ts) :
                      /\ Level(ts[k]) = loosest
                      /\ \A j \in TopOperators(ts) : Level(ts[j]) = loosest => j <= k
             lhs == Tree(SubSeq(ts, 1, at - 1))
             rhs == Tree(SubSeq(ts, at + 1, Len(ts)))
         IN  IF lhs = IllFormed \/ rhs = IllFormed THEN IllFormed
             ELSE BinaryExpression(lhs, ts[at].value, rhs)
    ELSE IF Len(ts) = 1
    THEN IF ts[1].type = "Identifier" THEN Identifier(ts[1].value)
         ELSE IF ts[1].type = "integer_literal"
         THEN NumericLiteral("uint64_t", uint64_t(atoll(ts[1].value)))
         ELSE IllFormed
    ELSE IF ts[1].type = "OParen" /\ ts[Len(ts)].type = "CParen"
    THEN Tree(SubSeq(ts, 2, Len(ts) - 1))
    ELSE IllFormed

\* the tokens of the expression statement before its semicolon
ExprOf(toks) == SubSeq(toks, 1, Len(toks) - 2)

(* C11: an expression statement over ==, !=, +, -, *, /, %, **, . and      *)
(* parentheses parses into the tree of the ladder equality < additive <    *)
(* multiplicative < exponent < dot < primary, each level folding to the    *)
(* left: the looser operator is nearer the root, and operators of one      *)
(* level nest to the left.                                                 *)
C11_PrecedenceLadder ==
    (ParserFinished /\ Tree(ExprOf(parser_tokens)) # IllFormed) =>
        /\ parser_pc = "returned"
        /\ program = Program(<< Statement(Tree(ExprOf(parser_tokens))) >>)

\* a + a * b has + at the root and a ** a ** b is (a ** a) ** b
C11_Witness ==
    /\ parser_pc = "returned"
    /\ \/ /\ parser_tokens = << Tk.a, Tk.plus, Tk.a, Tk.star, Tk.b, Tk.semi, Tk.EOF >>
          /\ program.body[1].ptr.op = << "+" >>
          /\ program.body[1].ptr.rhs.op = << "*" >>
       \/ /\ parser_tokens = << Tk.a, Tk.pow, Tk.a, Tk.pow, Tk.b, Tk.semi, Tk.EOF >>
          /\ program.body[1].ptr.lhs.class = "BinaryExpression"


---------------------------------------------------------------------------
(* Statements: an opening, at most MaxStatements statements, a brace or none *)

MaxStatements == 2

\* if ( condition ), with the tokens of the condition
If(condition) == << Tk.if, Tk.lp >> \o condition \o << Tk.rp >>

Conditions ==
    { << Tk.one >>, << Tk.a, Tk.eqeq, Tk.b >>, << Tk.true >>,
      << Tk.a >>, << Tk.f, Tk.lp, Tk.rp >>, << Tk.a, Tk.eq, Tk.one >>,
      << Tk.str >>, << Token(<< "c" >>, "char_literal") >> }

Openings ==
    { << >>, If(<< Tk.one >>) \o << Tk.lb >>,
      << Tk.namespace, Tk.a, Tk.lb >>,
      << Tk.int, Tk.f, Tk.lp, Tk.rp, Tk.lb >>,
      << Tk.int, Tk.f, Tk.lp, Tk.rp, Tk.lb, Tk.return >>,
      << Tk.int, Tk.f, Tk.lp, Tk.rp, Tk.lb, Tk.a, Tk.eq, Tk.one, Tk.semi, Tk.return >>,
      << Tk.int, Tk.f, Tk.lp, Tk.mutable, Tk.one, Tk.a, Tk.rp, Tk.lb >>,
      << Tk.a, Tk.eq, Tk.b, Tk.eq >>,
      << Tk.a, Token(<< "+" >>, "string_literal") >> } \cup
    { If(c) : c \in Conditions }

Statements ==
    { << Tk.a, Tk.eq, Tk.one, Tk.semi >>,
      << Tk.int, Tk.a, Tk.eq, Tk.one, Tk.semi >>,
      << Tk.int, Tk.a, Tk.semi >>,
      << Tk.mutable, Tk.int, Tk.a, Tk.semi >>,
      << Tk.mutable, Tk.int, Tk.ref, Tk.a, Tk.eq, Tk.one, Tk.semi >>,
      << Tk.int, Tk.ptr, Tk.a, Tk.semi >>,
      << Tk.int, Tk.f, Tk.lp, Tk.int, Tk.a, Tk.comma, Tk.rp, Tk.lb, Tk.rb >>,
      << Tk.int, Tk.f, Tk.lp, Tk.int, Tk.a, Tk.comma, Tk.mutable, Tk.F, Tk.ref, Tk.b,
         Tk.rp, Tk.lb, Tk.rb >>,
      << Tk.f, Tk.lp, Tk.a, Tk.b, Tk.rp, Tk.semi >>,
      << Tk.f, Tk.lp, Tk.a, Tk.comma, Tk.rp, Tk.semi >>,
      << Tk.if, Tk.lp, Tk.true, Tk.rp, Tk.a, Tk.eq, Tk.one, Tk.semi >> }

InitStatements ==
    \E o \in Openings, t \in Texts(Statements, MaxStatements),
       c \in { << >>, << Tk.rb >> } :
        InitParser(o \o t \o c \o << Tk.EOF >>)

SpecStatements == InitStatements /\ [][NextParser]_vars

\* the nodes a list of Statement cells holds
Held(list) == [k \in 1..Len(list) |-> list[k].ptr]

\* the nodes directly under the node n
Children(n) ==
    CASE n.class = "Program" -> Held(n.body)
      [] n.class \in {"AssignmentExpression", "BinaryExpression"} -> << n.lhs, n.rhs >>
      [] n.class = "VariableDeclaration" -> << n.value >>
      [] n.class = "FunctionDeclaration" -> Held(n.body)
      [] n.class = "ClassDeclaration" -> n.fields \o n.methods
      [] n.class = "FieldDeclaration" -> << n.var >>
      [] n.class = "MethodDeclaration" -> << n.func >>
      [] n.class = "FunctionCall" -> Held(n.parameters)
      [] n.class = "ReturnStatement" -> << n.stmt.ptr >>
      [] n.class = "NameSpaceDeclaration" -> Held(n.body)
      [] n.class = "IfStatement" -> << n.condition >> \o Held(n.body)
      [] OTHER -> << >>

\* the nodes of the tree under n, n first
RECURSIVE Nodes(_)
RECURSIVE NodesOf(_)
Nodes(n) == << n >> \o NodesOf(Children(n))
NodesOf(ns) == IF Len(ns) = 0 THEN << >> ELSE Nodes(Head(ns)) \o NodesOf(Tail(ns))

\* the nodes of the AST that produceAST returned
Returned == IF parser_pc = "returned" THEN Nodes(program) ELSE << >>

\* toks holds the tokens part in a row
Holds(toks, part) ==
    \E k \in 0..(Len(toks) - Len(part)) : SubSeq(toks, k + 1, k + Len(part)) = part

\* the conditions the claim names as rejected
BadConditions ==
    Conditions \ { << Tk.one >>, << Tk.a, Tk.eqeq, Tk.b >>, << Tk.true >> }

\* C12: in every AST the parser returns the condition of every IfStatement
\* is a BinaryExpression, a BoolLiteral or a NumericLiteral, and a token list
\* with an if on a bare identifier, a function call, an assignment, a string
\* or a character literal is rejected with an error
C12_IfCondition ==
    /\ \A k \in 1..Len(Returned) :
         Returned[k].class = "IfStatement" =>
            Returned[k].condition.class \in {"BinaryExpression", "BoolLiteral", "NumericLiteral"}
    /\ ParserFinished /\ (\E c \in BadConditions : Holds(parser_tokens, If(c)))
         => parser_pc = "threw"

C12_Witness ==
    /\ parser_pc = "returned"
    /\ \E k \in 1..Len(Returned) :
         /\ Returned[k].class = "IfStatement"
         /\ Returned[k].condition.class = "BinaryExpression"
         /\ \E j \in 1..Len(Returned) :
              /\ Returned[j].class = "IfStatement"
              /\ Returned[j].condition.class = "BoolLiteral"


---------------------------------------------------------------------------
(* Class definitions: two classes in a row, members and access specifiers *)

MaxMembers == 2

Members ==
    { << Tk.public, Tk.colon >>, << Tk.private, Tk.colon >>,
      << Token(W_protected, "protected_"), Tk.colon >>,
      << Tk.int, Tk.a, Tk.semi >>,
      << Tk.mutable, Tk.F, Tk.ref, Tk.b, Tk.eq, Tk.one, Tk.semi >>,
      << Tk.int, Tk.f, Tk.lp, Tk.rp, Tk.lb, Tk.a, Tk.eq, Tk.one, Tk.semi, Tk.rb >> }

\* class F { members }
Class(members) == << Tk.class, Tk.F, Tk.lb >> \o members \o << Tk.rb >>

InitClasses ==
    \E t \in Texts(Members, MaxMembers), u \in Texts(Members, 1) :
        InitParser(Class(t) \o Class(u) \o << Tk.EOF >>)

SpecClasses == InitClasses /\ [][NextParser]_vars

\* the braces open after tokens[from .. to] of toks
RECURSIVE Braces(_, _, _)
Braces(toks, from, to) ==
    IF to < from THEN 0
    ELSE Braces(toks, from, to - 1) +
         (IF toks[to + 1].type = "OCurlyBrace" THEN 1
          ELSE IF toks[to + 1].type = "CCurlyBrace" THEN -1 ELSE 0)

\* the access that the words of toks give the member that starts at
\* tokens[at] of the class whose body opens at tokens[open]: that of the last
\* specifier of this body before the member, Public if there is none
AccessAt(toks, open, at) ==
    LET S == { k \in (open + 1)..(at - 1) :
                 /\ toks[k + 1].value \in {W_public, W_private, W_protected}
                 /\ Braces(toks, open, k - 1) = 1 }
        last == CHOOSE k \in S : \A j \in S : j <= k
    IN  IF S = {} THEN "Public"
        ELSE IF toks[last + 1].value = W_private THEN "Private"
        ELSE IF toks[last + 1].value = W_protected THEN "Protected"
        ELSE "Public"

---------------------------------------------------------------------------
(* Variable declarations *)

\* 1 if tokens[k] of toks has one of the types, 0 if not
Has(toks, k, types) == IF toks[k + 1].type \in types THEN 1 ELSE 0

\* the index of the identifier of the declaration that starts at tokens[at]:
\* behind mutable if it is there, the type, and the sigil if it is there
NameAt(toks, at) ==
    LET type == at + Has(toks, at, {"mutable_"})
    IN  type + 1 + Has(toks, type + 1, {"Reference", "Pointer"})

\* C14: every VariableDeclaration the parser returns either has no value,
\* and then a semicolon follows its identifier at once in the token list, or
\* has a value, and then isMutable is true exactly when the declaration
\* started with mutable
C14_DeclarationShape ==
    \A k \in 1..Len(Returned) :
        Returned[k].class = "VariableDeclaration" =>
            IF Returned[k].value.class = "nullptr"
            THEN Has(parser_tokens, NameAt(parser_tokens, Returned[k].at) + 1, {"Semicolon"}) = 1
            ELSE Returned[k].isMutable = (Has(parser_tokens, Returned[k].at, {"mutable_"}) = 1)

C14_Witness ==
    /\ \E k \in 1..Len(Returned) :
         /\ Returned[k].class = "VariableDeclaration"
         /\ Returned[k].value.class = "nullptr"
    /\ \E k \in 1..Len(Returned) :
         /\ Returned[k].class = "VariableDeclaration"
         /\ Returned[k].value.class # "nullptr"
         /\ Returned[k].isMutable


\* the statements of the form type name ; with or without mutable, with or
\* without a sigil
PlainDeclarations ==
    { m \o << type >> \o s \o << Tk.a, Tk.semi >> :
        m \in { << >>, << Tk.mutable >> }, type \in {Tk.int, Tk.F},
        s \in { << >>, << Tk.ref >>, << Tk.ptr >> } }

\* C15: a statement of the form type name ; at statement position, with or
\* without mutable and with or without a sigil, parses to a
\* VariableDeclaration without value, and a VariableDeclaration without
\* value comes from no other form
C15_DeclarationWithoutValue ==
    /\ ParserFinished /\ Body(parser_tokens) \in PlainDeclarations =>
         /\ parser_pc = "returned"
         /\ Len(program.body) = 1
         /\ program.body[1].ptr.class = "VariableDeclaration"
         /\ program.body[1].ptr.value.class = "nullptr"
    /\ \A k \in 1..Len(Returned) :
         Returned[k].class = "VariableDeclaration" /\ Returned[k].value.class = "nullptr" =>
            SubSeq(parser_tokens, Returned[k].at + 1,
                   NameAt(parser_tokens, Returned[k].at) + 2) \in PlainDeclarations


---------------------------------------------------------------------------
(* Parameter lists and argument lists *)

\* the index of the first closing paren of toks at or behind tokens[k]
RECURSIVE CloseAt(_, _)
CloseAt(toks, k) == IF toks[k + 1].type = "CParen" THEN k ELSE CloseAt(toks, k + 1)

\* the tokens of toks of the type between tokens[open] and tokens[close]
Between(toks, open, close, type) ==
    SelectSeq(SubSeq(toks, open + 2, close), LAMBDA t : t.type = type)

\* the parameter list of fn is as long as the commas between the parens of
\* the declaration say, and names the identifiers there in their order
ParametersAsWritten(toks, fn) ==
    LET open == NameAt(toks, fn.at) + 1
        close == CloseAt(toks, open)
        names == Between(toks, open, close, "Identifier")
    IN  /\ Len(fn.paramList) =
             IF close = open + 1 THEN 0
             ELSE Len(Between(toks, open, close, "Comma")) + 1
        /\ Len(fn.paramList) <= Len(names)
        /\ \A j \in 1..Len(fn.paramList) : fn.paramList[j].name.symbol = names[j].value

\* C16: a function declaration with a comma directly before the closing
\* paren of its parameter list is rejected with an error, and every accepted
\* declaration has one parameter more than its list has commas, none for an
\* empty list, in the order of the source
C16_ParameterList ==
    /\ ParserFinished /\ Holds(parser_tokens, << Tk.comma, Tk.rp, Tk.lb >>) =>
         parser_pc = "threw"
    /\ \A k \in 1..Len(Returned) :
         Returned[k].class = "FunctionDeclaration" =>
            ParametersAsWritten(parser_tokens, Returned[k])

\* C17: a call with two arguments in a row without a comma between them, or
\* with a comma directly before the closing paren, is rejected with an
\* error, and the arguments of an accepted call keep the order of the source
C17_ArgumentList ==
    /\ ParserFinished /\ Holds(parser_tokens, << Tk.f, Tk.lp, Tk.a, Tk.b, Tk.rp >>) =>
         parser_pc = "threw"
    /\ ParserFinished /\ Holds(parser_tokens, << Tk.comma, Tk.rp, Tk.semi >>) =>
         parser_pc = "threw"
    /\ parser_pc = "returned" /\ Len(program.body) = 1
         /\ program.body[1].ptr.class = "FunctionCall" =>
            LET names == Between(parser_tokens, 1, CloseAt(parser_tokens, 1), "Identifier")
                parameters == program.body[1].ptr.parameters
            IN  /\ Len(parameters) = Len(names)
                /\ \A j \in 1..Len(names) :
                     parameters[j].ptr = Identifier(names[j].value)

---------------------------------------------------------------------------
(* Bodies *)

\* the node n without the place where its tokens started
Placeless(n) ==
    IF n.class \in {"VariableDeclaration", "FunctionDeclaration"}
    THEN [n EXCEPT !.at = 0] ELSE n

\* the record produceAST() leaves on toks when nothing lies behind them
Parsed(toks) == call("produceLoop", Parser(toks, 0, Fault), << >>)

\* C18: for every statement S that an if takes as its single statement,
\* if (c) { S } parses and its body is [S]
C18_BracedBody ==
    \A S \in Statements :
        LET c == << Tk.one >>
            single == Parsed(If(c) \o S \o << Tk.EOF >>)
        IN  /\ parser_tokens = If(c) \o << Tk.lb >> \o S \o << Tk.rb, Tk.EOF >>
            /\ ParserFinished
            /\ single.st = "ok"
            => /\ parser_pc = "returned"
               /\ Len(program.body) = 1
               /\ program.body[1].ptr.class = "IfStatement"
               /\ Len(program.body[1].ptr.body) = 1
               /\ Placeless(program.body[1].ptr.body[1].ptr) =
                    Placeless(single.node.body[1].ptr.body[1].ptr)

\* the openings that leave a body open
Unclosed ==
    { If(<< Tk.one >>) \o << Tk.lb >>, << Tk.namespace, Tk.a, Tk.lb >>,
      << Tk.int, Tk.f, Tk.lp, Tk.rp, Tk.lb >>,
      << Tk.int, Tk.f, Tk.lp, Tk.rp, Tk.lb, Tk.return >> }

\* C19: when a namespace body, a function body, a return or a braced if body
\* reaches EOF_ before its closing brace or semicolon, produceAST raises an
\* error and reads no token at an index beyond the last
C19_EarlyEOF ==
    /\ ParserFinished
    /\ \E o \in Unclosed, t \in Texts(Statements, MaxStatements) :
         Body(parser_tokens) = o \o t
    => parser_pc = "threw" /\ ~oob

\* C20: produceAST terminates, with a Program returned or an error raised,
\* and every iteration of a loop of the parser consumes a token
C20_Terminates ==
    ParserFinished => parser_pc \in {"returned", "threw"} /\ ~stalled


---------------------------------------------------------------------------
(* Access specifiers and what follows them *)

\* tokens[k] of toks is an access specifier with its colon, and a token of
\* one of the types follows
SpecifierThen(toks, k, types) ==
    /\ k + 2 < Len(toks)
    /\ isAccessSpecifier(toks[k + 1].type)
    /\ toks[k + 2].type = "Colon"
    /\ toks[k + 3].type \in types

\* C21: a class body in which an access specifier and its colon are followed
\* by another access specifier, by a member that starts with mutable or by
\* the closing brace is accepted, and the access in force is that of the
\* last specifier seen
C21_SpecifierThenNext ==
    /\ ParserFinished
    /\ \E k \in 0..Len(parser_tokens) :
         SpecifierThen(parser_tokens, k,
                       {"public_", "private_", "protected_", "mutable_", "CCurlyBrace"})
    => /\ parser_pc = "returned"
       /\ \A k \in 1..Len(Returned) :
            Returned[k].class = "ClassDeclaration" =>
               \A m \in 1..Len(Returned[k].fields) :
                  Returned[k].fields[m].spec =
                     AccessAt(parser_tokens, Returned[k].open, Returned[k].fields[m].var.at)


---------------------------------------------------------------------------
(* Function bodies and parameters *)

\* int f ( ) { return
FunctionReturn == << Tk.int, Tk.f, Tk.lp, Tk.rp, Tk.lb, Tk.return >>

\* C22: in every FunctionDeclaration the parser returns a ReturnStatement
\* directly in the body is the last element of the body, so there is at most
\* one, and a function body with anything but the closing brace behind its
\* return statement is rejected with an error
C22_ReturnEndsBody ==
    /\ \A k \in 1..Len(Returned) :
         Returned[k].class = "FunctionDeclaration" =>
            \A j \in 1..Len(Returned[k].body) :
               Returned[k].body[j].ptr.class = "ReturnStatement" =>
                  j = Len(Returned[k].body)
    /\ ParserFinished
         /\ (\E s \in Statements, t \in Statements, c \in { << >>, << Tk.rb >> } :
               Body(parser_tokens) = FunctionReturn \o s \o t \o c)
         => parser_pc = "threw"

C22_Witness ==
    \E k \in 1..Len(Returned) :
        /\ Returned[k].class = "FunctionDeclaration"
        /\ Len(Returned[k].body) = 2
        /\ Returned[k].body[2].ptr.class = "ReturnStatement"


\* C23: every parameter of an accepted function declaration has the text of
\* a PrimitiveType or ClassType token as its type, and a parameter in which
\* mutable is followed by a token that is no type is rejected with an error
C23_ParameterType ==
    /\ \A k \in 1..Len(Returned) :
         Returned[k].class = "FunctionDeclaration" =>
            \A j \in 1..Len(Returned[k].paramList) :
               \E t \in 1..Len(parser_tokens) :
                  /\ parser_tokens[t].type \in {"PrimitiveType", "ClassType"}
                  /\ parser_tokens[t].value = Returned[k].paramList[j].type.name
    /\ ParserFinished /\ Holds(parser_tokens, << Tk.lp, Tk.mutable, Tk.one >>) =>
         parser_pc # "returned"


---------------------------------------------------------------------------
(* Character literals, comments and signs in the token list of a text *)

\* the text the claim gives the character literal that opens srctext
CharText(text) ==
    IF text[2] = BSL THEN << BSL, text[3] >> ELSE << text[2] >>

\* C24: the text of a character literal token is the character behind the
\* opening quote, and the character after that as well when the first is a
\* backslash, and the literal with its closing quote yields exactly one
\* char_literal token
C24_CharLiteral ==
    pc = "returned" /\ LENGTH = Len(srctext) /\ Len(srctext) >= 3 /\ srctext[1] = SQ =>
        /\ Len(result) >= 1
        /\ result[1] = Token(CharText(srctext), "char_literal")
        /\ Len(srctext) = Len(CharText(srctext)) + 2 /\ srctext[Len(srctext)] = SQ =>
             result = << Token(CharText(srctext), "char_literal"), Token(<< >>, "EOF_") >>


\* the first k such that text[k] and text[k + 1] hold the character c, 0 if
\* there is none
RECURSIVE TwiceAt(_, _, _)
TwiceAt(text, c, k) ==
    IF k >= Len(text) THEN 0
    ELSE IF text[k] = c /\ text[k + 1] = c THEN k
    ELSE TwiceAt(text, c, k + 1)

\* the first k >= from such that text[k] is a line end, Len(text) + 1 if
\* there is none
RECURSIVE LineEnd(_, _)
LineEnd(text, from) ==
    IF from > Len(text) \/ text[from] = LF THEN from ELSE LineEnd(text, from + 1)

\* text begins with a comment at text[k], outside every literal
CommentAt(text, k) ==
    /\ k > 0
    /\ \A j \in 1..(k - 1) : text[j] \notin {DQ, SQ}

\* text without the characters of the comment at text[k], the line end kept
Uncommented(text, k) ==
    SubSeq(text, 1, k - 1) \o SubSeq(text, LineEnd(text, k), Len(text))

\* C26: a // comment yields no token and leaves lastType alone: a text with
\* a comment is tokenized as the text without the characters of the
\* comment, also when the comment ends the text
C26_CommentIsNothing ==
    LET k == TwiceAt(srctext, "/", 1)
        plain == Fresh(Uncommented(srctext, k))
    IN  Finished /\ LENGTH = Len(srctext) /\ CommentAt(srctext, k) =>
            /\ pc \in outcomes(plain)
            /\ result = returned(plain)
            /\ lastType = plain.lastType


---------------------------------------------------------------------------
(* Chains of assignments *)

\* a = b = a = 1 ;
Chain == << Tk.a, Tk.eq, Tk.b, Tk.eq, Tk.a, Tk.eq, Tk.one, Tk.semi >>

\* a = (b = (a = 1))
ChainTree ==
    AssignmentExpression(Identifier(<< "a" >>),
        AssignmentExpression(Identifier(<< "b" >>),
            AssignmentExpression(Identifier(<< "a" >>),
                                 NumericLiteral("uint64_t", 1))))

\* C25: assignment is right-associative, and one semicolon ends the whole
\* chain: a = b = a = 1 ; parses to a = (b = (a = 1)) and leaves the parser
\* right behind the semicolon
C25_RightAssociative ==
    /\ ParserFinished /\ Body(parser_tokens) = Chain =>
         /\ parser_pc = "returned"
         /\ program = Program(<< Statement(ChainTree) >>)
         /\ parser_i = Len(Chain)
    /\ parser_pc = "returned" /\ Len(parser_tokens) > Len(Chain)
         /\ SubSeq(parser_tokens, 1, Len(Chain)) = Chain =>
            program.body[1] = Statement(ChainTree)

C25_Witness ==
    /\ parser_pc = "returned"
    /\ Body(parser_tokens) = Chain \o << Tk.a, Tk.eq, Tk.one, Tk.semi >>
    /\ Len(program.body) = 2
    /\ program.body[1].ptr.rhs.rhs.class = "AssignmentExpression"


---------------------------------------------------------------------------
(* Declarations under if heads and namespace heads *)

MaxHeads == 2

Heads == { If(<< Tk.one >>), << Tk.namespace, Tk.a, Tk.lb >> }

Declarations ==
    { << Tk.namespace, Tk.b, Tk.lb, Tk.rb >>,
      << Tk.class, Tk.F, Tk.lb, Tk.rb >>,
      << Tk.namespace, Tk.b, Tk.lb, Tk.class, Tk.F, Tk.lb, Tk.int, Tk.a, Tk.semi, Tk.rb, Tk.rb >>,
      << Tk.a, Tk.eq, Tk.one, Tk.semi >> }

\* at most MaxHeads heads, a declaration or an assignment, closing braces
InitNested ==
    \E h \in Texts(Heads, MaxHeads), d \in Declarations,
       c \in Texts({ << Tk.rb >> }, MaxHeads) :
        InitParser(h \o d \o c \o << Tk.EOF >>)

SpecNested == InitNested /\ [][NextParser]_vars

\* n namespace heads, 0 <= n
RECURSIVE Namespaces(_)
Namespaces(n) ==
    IF n = 0 THEN << >> ELSE << Tk.namespace, Tk.a, Tk.lb >> \o Namespaces(n - 1)

\* n closing braces, 0 <= n
RECURSIVE Closings(_)
Closings(n) == IF n = 0 THEN << >> ELSE << Tk.rb >> \o Closings(n - 1)

\* toks begins with n if heads, n >= 1, and the tokens of rest right after
UnderIf(toks, rest) ==
    \E n \in 1..MaxHeads :
        /\ Len(toks) >= 4 * n + Len(rest)
        /\ \A j \in 0..(n - 1) : SubSeq(toks, 4 * j + 1, 4 * j + 4) = If(<< Tk.one >>)
        /\ SubSeq(toks, 4 * n + 1, 4 * n + Len(rest)) = rest

\* C27: a namespace or class statement as the single unbraced statement of
\* an if is rejected with an error, also under an if that is itself the
\* unbraced body of an if; at top level and in a namespace body the same
\* statement is accepted
C27_NoDeclarationUnderIf ==
    /\ ParserFinished
         /\ (UnderIf(parser_tokens, << Tk.namespace >>) \/ UnderIf(parser_tokens, << Tk.class >>))
         => parser_pc = "threw"
    /\ ParserFinished
         /\ (\E n \in 0..MaxHeads, d \in Declarations :
               Body(parser_tokens) = Namespaces(n) \o d \o Closings(n))
         => parser_pc = "returned"

C27_Witness ==
    /\ parser_pc = "returned"
    /\ Body(parser_tokens) =
          << Tk.namespace, Tk.a, Tk.lb, Tk.class, Tk.F, Tk.lb, Tk.rb, Tk.rb >>
    /\ program.body[1].ptr.body[1].ptr.class = "ClassDeclaration"


---------------------------------------------------------------------------
\* The Statement cells of a returned AST

\* the Statement cells the node n holds
Cells(n) ==
    CASE n.class \in {"Program", "FunctionDeclaration", "NameSpaceDeclaration",
                      "IfStatement"} -> n.body
      [] n.class = "FunctionCall" -> n.parameters
      [] n.class = "ReturnStatement" -> << n.stmt >>
      [] OTHER -> << >>

\* C28: no AST that produceAST returns holds a UnaryExpression node, and
\* every Statement cell in it (in the program, in a function, namespace or if
\* body, among the arguments of a call, under a return) has kind Expression
\* and holds an expression that is not null; none has kind Scope or Program
C28_StatementsHoldExpressions ==
    \A k \in 1..Len(Returned) :
        /\ Returned[k].class # "UnaryExpression"
        /\ \A j \in 1..Len(Cells(Returned[k])) :
              /\ Cells(Returned[k])[j].kind = "Expression"
              /\ Cells(Returned[k])[j].ptr.class \notin {"nullptr", "Program"}

\* a function whose body returns a call with arguments was accepted
C28_Witness ==
    /\ parser_pc = "returned"
    /\ \E k \in 1..Len(Returned) :
          /\ Returned[k].class = "ReturnStatement"
          /\ Returned[k].stmt.ptr.class = "FunctionCall"
          /\ Len(Returned[k].stmt.ptr.parameters) > 0


---------------------------------------------------------------------------
\* Token texts and the shape of the AST

\* the token list toks with the text of every string and character literal
\* replaced by a plain one: the same token kinds in the same order
PlainTexts(toks) ==
    [k \in 1..Len(toks) |->
        IF toks[k].type \in {"string_literal", "char_literal"}
        THEN Token(<< "s" >>, toks[k].type)
        ELSE toks[k]]

\* the classes of the nodes of the tree under n, in preorder
Shape(n) == [k \in 1..Len(Nodes(n)) |-> Nodes(n)[k].class]

\* C29: the parser decides from the token kinds only: a token list and the
\* list of the same kinds with plain literal texts are both rejected, or both
\* accepted with ASTs of the same node structure (checked on the runs that
\* read no token beyond the list)
C29_KindsDecide ==
    ParserFinished /\ ~oob =>
        LET T == Parsed(PlainTexts(parser_tokens))
        IN  ~T.oob =>
              /\ (parser_pc = "returned") <=> (T.st = "ok")
              /\ parser_pc = "returned" /\ T.st = "ok" => Shape(program) = Shape(T.node)


---------------------------------------------------------------------------
\* Negative literals

\* C30: every negative_integer_literal token of a returned list has a text
\* made of `-` and at least one digit after it; a `-` behind `=` that is
\* followed by a character other than a digit, `.` and `>` becomes a Minus
\* or MinusMinus token
C30_NegativeLiteral ==
    pc = "returned" =>
        /\ \A k \in 1..Len(result) :
              result[k].type = "negative_integer_literal" =>
                 /\ Len(result[k].value) >= 2
                 /\ result[k].value[1] = "-"
                 /\ \A j \in 2..Len(result[k].value) : result[k].value[j] \in Digits
        /\ /\ Len(srctext) >= 3
           /\ srctext[1] = "=" /\ srctext[2] = "-"
           /\ srctext[3] \notin Digits \cup {".", ">"}
           => result[2].type \in {"Minus", "MinusMinus"}

===========================================================================
